---------------------------- MODULE Spec2Model ----------------------------
(***************************************************************************)
(* A model of the dip-lab pixel-buffer engine: Spatial.applyFilter,        *)
(* the Frequency filters, the Projection transforms, BlurDetection and     *)
(* the dipImage buffer that feeds them.                                    *)
(*                                                                         *)
(* Numbers.  A Uint8ClampedArray is a sequence of integers 0..255 and a    *)
(* store into it is ToUint8Clamp (clamp, round half to even).  The         *)
(* floating-point values the code computes are kept as exact rationals     *)
(* (numerator, denominator): kernel weights k/273 and k/9, means sum/width,*)
(* luminance in thousandths.  Within the image sizes explored no exact     *)
(* value lies within floating-point error of a rounding tie that it does   *)
(* not hit exactly, so the rational result is the stored byte.             *)
(***************************************************************************)
EXTENDS Integers, Naturals, Sequences, FiniteSets, TLC

\* ------------------------------------------------------------------ bounds
\* Largest width and height explored (the forward transform below is the
\* code's stride-4 sum, whose only sampled position is 0 up to size 4).
MaxDim == 2
\* Largest number of setPixel calls made on the input image before a transform.
MaxWrites == 1

Dims == 0..MaxDim

\* Pixels a caller writes with setPixel: the first pixel of the Spatial test
\* image, the fill pixel of the Frequency tests, and a translucent pixel.
Palette == { <<255, 0, 0, 255>>, <<100, 150, 200, 255>>, <<255, 128, 64, 7>> }

\* The 2x2 image used by the Spatial, Frequency and Projection tests.
testImageData ==
  << 255, 0, 0, 255,   0, 255, 0, 255,   0, 0, 255, 255,   128, 128, 128, 255 >>

\* Cut-off distances offered to the frequency filters, in eighths of a bin.
Cutoffs == {0, 4, 8, 12}

\* ---------------------------------------------------------------- numbers
\* Reading past the end of a typed array yields undefined.
Undefined == -1

Min(a, b) == IF a < b THEN a ELSE b
Max(a, b) == IF a > b THEN a ELSE b

\* floor(n / d) for d > 0 and any integer n.
FloorDiv(n, d) == IF n >= 0 THEN n \div d ELSE -((-n + d - 1) \div d)

RECURSIVE SumFrom(_, _)
\* s[i] + ... + s[Len(s)]
SumFrom(s, i) == IF i > Len(s) THEN 0 ELSE s[i] + SumFrom(s, i + 1)

\* the sum of the elements of a sequence of numbers
SeqSum(s) == SumFrom(s, 1)

\* Storing the number n/d (d > 0) into a Uint8ClampedArray element:
\* clamp to [0,255], round to nearest, ties to the even integer.
ToUint8Clamp(n, d) ==
  IF n <= 0 THEN 0
  ELSE IF n >= 255 * d THEN 255
  ELSE LET f == FloorDiv(n, d)
           r == 2 * (n - f * d)      \* twice the fractional part, over d
       IN  IF r < d THEN f
           ELSE IF r > d THEN f + 1
           ELSE IF f % 2 = 0 THEN f ELSE f + 1

\* imageData[i] for a 0-based index i.
At(buf, i) == IF i >= 0 /\ i < Len(buf) THEN buf[i + 1] ELSE Undefined

\* v ?? d
Nullish(v, d) == IF v = Undefined THEN d ELSE v

\* v || d   (undefined and 0 are both falsy)
OrElse(v, d) == IF v = Undefined \/ v = 0 THEN d ELSE v

\* The elements an array holds once the loop that fills it has run.
Stored(elements) == elements \o << >>

\* new Uint8ClampedArray(n)
Zeros(n) == [i \in 1..n |-> 0]

\* What a call hands back.  `fresh` tells whether the returned array is a new
\* allocation (TRUE) or the very object the caller passed in (FALSE); `kept`
\* lists the frequency bins for which a filter took its keep branch.
Returned(value, fresh, kept) ==
  [ ok |-> TRUE, fresh |-> fresh, value |-> value, kept |-> kept, error |-> "" ]

\* A call that ended in `throw new Error(message)`.
Thrown(message) ==
  [ ok |-> FALSE, fresh |-> FALSE, value |-> << >>, kept |-> {}, error |-> message ]

\* ---------------------------------------------------------------- Spatial
\* Spatial.Filters: each kernel as integer numerators over one denominator.
Filters ==
  [ name \in { "Gaussian Blur", "Sharpen", "Mean Removal", "Emboss Laplascian",
               "Sobel", "Horizontal Edge", "Vertical Edge", "Identity" } |->
    CASE name = "Gaussian Blur" ->
           [ den |-> 273,
             k |-> << <<1, 4, 7, 4, 1>>, <<4, 16, 26, 16, 4>>, <<7, 26, 41, 26, 7>>,
                      <<4, 16, 26, 16, 4>>, <<1, 4, 7, 4, 1>> >> ]
      [] name = "Sharpen" ->
           [ den |-> 1, k |-> << <<0, -1, 0>>, <<-1, 5, -1>>, <<0, -1, 0>> >> ]
      [] name = "Mean Removal" ->
           [ den |-> 9, k |-> << <<-1, -1, -1>>, <<-1, 8, -1>>, <<-1, -1, -1>> >> ]
      [] name = "Emboss Laplascian" ->
           [ den |-> 1, k |-> << <<-1, 0, -1>>, <<0, 4, 0>>, <<-1, 0, -1>> >> ]
      [] name = "Sobel" ->
           [ den |-> 1, k |-> << <<-1, -2, -1>>, <<0, 0, 0>>, <<1, 2, 1>> >> ]
      [] name = "Horizontal Edge" ->
           [ den |-> 1, k |-> << <<-1, 0, 1>>, <<-2, 0, 2>>, <<-1, 0, 1>> >> ]
      [] name = "Vertical Edge" ->
           [ den |-> 1, k |-> << <<-1, -2, -1>>, <<0, 0, 0>>, <<1, 2, 1>> >> ]
      [] name = "Identity" ->
           [ den |-> 1, k |-> << <<0, 0, 0>>, <<0, 1, 0>>, <<0, 0, 0>> >> ] ]

FilterNames == DOMAIN Filters

\* Names a caller may pass that are not in the registry.
BogusNames == { "Nope", "NonExistent Filter" }

\* The names this.Filters[kernelName] finds although the registry does not
\* list them: Filters is an object literal, and these are the properties it
\* inherits from Object.prototype, functions or objects that are no arrays.
InheritedNames ==
  { "constructor", "hasOwnProperty", "isPrototypeOf", "propertyIsEnumerable",
    "toLocaleString", "toString", "valueOf", "__proto__",
    "__defineGetter__", "__defineSetter__", "__lookupGetter__", "__lookupSetter__" }

\* The names the calls of applyFilter are made with.
RequestedNames == FilterNames \cup BogusNames \cup { "constructor", "toString" }

\* The message of the Error thrown for a missing kernel.
NotFoundMessage(kernelName) == "Filter \"" \o kernelName \o "\" not found"

\* A variant of the two inner loops that would skip a tap whose coordinate
\* falls outside the image instead of clamping the coordinate.
ConvSumZeroPadded(imageData, width, height, kernel, x, y, c) ==
  LET kernelSize == Len(kernel.k)
      halfKernel == kernelSize \div 2
      Tap(ky, kx) ==
        LET px == x + kx - halfKernel
            py == y + ky - halfKernel
        IN  IF px >= 0 /\ px < width /\ py >= 0 /\ py < height
            THEN Nullish(At(imageData, (py * width + px) * 4 + c), 0) * kernel.k[ky + 1][kx + 1]
            ELSE 0
  IN  SeqSum([ t \in 1..(kernelSize * kernelSize) |->
                Tap((t - 1) \div kernelSize, (t - 1) % kernelSize) ])

\* The weighted sum (numerator over kernel.den) of channel c around (x, y):
\* the two inner loops of applyFilter with the clamped sample coordinate.
ConvSum(imageData, width, height, kernel, x, y, c) ==
  LET kernelSize == Len(kernel.k)
      halfKernel == kernelSize \div 2
      Tap(ky, kx) ==
        LET px == Max(0, Min(width - 1, x + kx - halfKernel))
            py == Max(0, Min(height - 1, y + ky - halfKernel))
        IN  IF px >= 0 /\ px < width /\ py >= 0 /\ py < height
            THEN Nullish(At(imageData, (py * width + px) * 4 + c), 0) * kernel.k[ky + 1][kx + 1]
            ELSE 0
  IN  SeqSum([ t \in 1..(kernelSize * kernelSize) |->
                Tap((t - 1) \div kernelSize, (t - 1) % kernelSize) ])

\* The alpha byte applyFilter stores for the pixel at byte index `index`.
FilterAlpha(imageData, index) == OrElse(At(imageData, index + 3), 255)

\* A variant that would clamp the sum of every kernel alike.
FilterChannelNoBias(kernelName, s, den) == ToUint8Clamp(s, den)

\* The byte applyFilter stores for a colour channel whose weighted sum is s/den.
FilterChannel(kernelName, s, den) ==
  IF kernelName = "Mean Removal"
  THEN ToUint8Clamp(2 * s + 128 * den, den)
  ELSE ToUint8Clamp(s, den)

\* The bytes applyFilter returns for a registered kernel: a new array of
\* imageData.length, written pixel by pixel for y < height, x < width.
FilterPixels(imageData, width, height, kernelName) ==
  LET kernel == Filters[kernelName]
  IN  Stored([ j \in 1..Len(imageData) |->
        LET p == (j - 1) \div 4
            c == (j - 1) % 4
        IN  IF p >= width * height THEN 0
            ELSE LET x == p % width
                     y == p \div width
                 IN  IF c = 3 THEN FilterAlpha(imageData, p * 4)
                     ELSE FilterChannel(kernelName,
                            ConvSum(imageData, width, height, kernel, x, y, c),
                            kernel.den) ])

\* The bytes applyFilter returns for an inherited name: the test !filter
\* passes, no kernel value is found (the kernel is no array) and every sum
\* stays 0.
InheritedPixels(imageData, width, height) ==
  Stored([ j \in 1..Len(imageData) |->
           IF (j - 1) \div 4 >= width * height THEN 0
           ELSE IF (j - 1) % 4 = 3 THEN FilterAlpha(imageData, j - 4)
           ELSE 0 ])

\* A variant that would fall back to Identity for a missing name.
applyFilterFallback(imageData, width, height, kernelName) ==
  Returned(FilterPixels(imageData, width, height,
             IF kernelName \in FilterNames THEN kernelName ELSE "Identity"),
           TRUE, {})

\* Spatial.applyFilter: throws for a name this.Filters[kernelName] does not
\* find; it finds the registered names and the inherited ones.
applyFilter(imageData, width, height, kernelName) ==
  IF kernelName \in FilterNames
  THEN Returned(FilterPixels(imageData, width, height, kernelName), TRUE, {})
  ELSE IF kernelName \in InheritedNames
  THEN Returned(InheritedPixels(imageData, width, height), TRUE, {})
  ELSE Thrown(NotFoundMessage(kernelName))

\* -------------------------------------------------------------- Frequency
\* Field values are numerators over FieldDen: luminance is kept in
\* thousandths and each of the two passes divides by 4.
FieldDen == 16000

\* A variant pass that would visit every position: for (x = 0; x < n; x++).
SamplePositionsDense(n) == [ t \in 1..n |-> t - 1 ]

\* The positions a pass samples: for (x = 0; x < n; x += 4).
SamplePositions(n) == [ t \in 1..((n + 3) \div 4) |-> 4 * (t - 1) ]

\* cos and sin of the angle -2*PI*k/n.  Position 0 gives the angle -0, whose
\* cosine is 1 and whose sine is -0; no other position is sampled for n <= 4.
TwiddleRe(k, n) == CASE k = 0 -> 1
TwiddleIm(k, n) == CASE k = 0 -> 0

\* grayData[p], in thousandths: (0.299 r + 0.587 g + 0.114 b) - 128 for every
\* pixel the conversion loop reaches, 0 elsewhere.
GrayData(imageData, width, height, p) ==
  IF 4 * p < Len(imageData) /\ p < width * height
  THEN 299 * OrElse(At(imageData, 4 * p), 0)
       + 587 * OrElse(At(imageData, 4 * p + 1), 0)
       + 114 * OrElse(At(imageData, 4 * p + 2), 0) - 128000
  ELSE 0

\* rowFFT[(y*width+u)*2 + part] times 4000.
RowFFT(imageData, width, height, y, u, part) ==
  LET xs == SamplePositions(width)
  IN  SeqSum([ t \in 1..Len(xs) |->
        GrayData(imageData, width, height, y * width + xs[t])
        * (IF part = 0 THEN TwiddleRe(u * xs[t], width)
                       ELSE TwiddleIm(u * xs[t], width)) ])

\* applyFFT with its trigonometry and rounding left uninterpreted, for any
\* size: the operands that enter bin (v, x).  The row pass adds, for each
\* sampled column xs[t], grayData[y*width + xs[t]] times cos and sin of
\* -2*PI*(u*xs[t])/width; the column pass adds, for each sampled row ys[t],
\* the row sums of (ys[t], x) times cos and sin of -2*PI*(v*ys[t])/height.
\* Real and imaginary part of a bin are functions of the same operands.
RowOperands(imageData, width, height, y, u) ==
  LET xs == SamplePositions(width)
  IN  [ t \in 1..Len(xs) |->
          << GrayData(imageData, width, height, y * width + xs[t]), u * xs[t], width >> ]

applyFFTOperands(imageData, width, height) ==
  Stored([ j \in 1..(width * height) |->
    LET x == (j - 1) % width
        v == (j - 1) \div width
        ys == SamplePositions(height)
    IN  [ t \in 1..Len(ys) |->
            << RowOperands(imageData, width, height, ys[t], x), v * ys[t], height >> ] ])

\* A transform that would hand back one value per bin.
applyFFTOneValuePerBin(imageData, width, height) ==
  [ j \in 1..(width * height) |-> RowFFT(imageData, width, height, 0, 0, 0) ]

\* Frequency.applyFFT: 2*width*height values, [real, imag] per bin, times 16000.
applyFFT(imageData, width, height) ==
  Stored([ j \in 1..(width * height * 2) |->
    LET i == (j - 1) \div 2
        part == (j - 1) % 2
        x == i % width
        v == i \div width
        ys == SamplePositions(height)
    IN  SeqSum([ t \in 1..Len(ys) |->
          LET realVal == RowFFT(imageData, width, height, ys[t], x, 0)
              imagVal == RowFFT(imageData, width, height, ys[t], x, 1)
              c == TwiddleRe(v * ys[t], height)
              s == TwiddleIm(v * ys[t], height)
          IN  IF part = 0 THEN realVal * c - imagVal * s
                          ELSE realVal * s + imagVal * c ]) ])

\* A variant distance that would be measured from bin (0, 0).
Dist64FromFirstBin(i, width, height) ==
  LET x == i % width
      y == i \div width
  IN  16 * ((2 * x) * (2 * x) + (2 * y) * (2 * y))

\* 64 * dist^2 for bin i, dist being the distance from (width/2, height/2).
Dist64(i, width, height) ==
  LET x == i % width
      y == i \div width
  IN  16 * ((2 * x - width) * (2 * x - width) + (2 * y - height) * (2 * y - height))

\* dist <= cutoff, dist > cutoff, with the cut-off given in eighths.
DistLeq(i, width, height, cutoff) ==
  cutoff >= 0 /\ Dist64(i, width, height) <= cutoff * cutoff

\* The keep branch of each filter.
LowPassKeeps(i, width, height, cutoff) == DistLeq(i, width, height, cutoff)

HighPassKeeps(i, width, height, cutoff) == ~DistLeq(i, width, height, cutoff)

\* A variant of the band-pass condition that would exclude dist = lowCutoff.
BandPassKeepsOpenLow(i, width, height, lowCutoff, highCutoff) ==
  /\ ~DistLeq(i, width, height, lowCutoff)
  /\ DistLeq(i, width, height, highCutoff)

\* dist >= lowCutoff && dist <= highCutoff
BandPassKeeps(i, width, height, lowCutoff, highCutoff) ==
  /\ (lowCutoff <= 0 \/ Dist64(i, width, height) >= lowCutoff * lowCutoff)
  /\ DistLeq(i, width, height, highCutoff)

\* The loop shared by the three filters: the kept bins carry the real part in
\* red and blue and the imaginary part in green, the others 0; alpha is the
\* input's (255 where that is 0 or missing).
MaskedPixels(imageData, width, height, fftResult, kept) ==
  [ j \in 1..(width * height * 4) |->
    LET i == (j - 1) \div 4
        c == (j - 1) % 4
    IN  IF c = 3 THEN OrElse(At(imageData, i * 4 + 3), 255)
        ELSE IF i \notin kept THEN 0
        ELSE IF c = 1 THEN ToUint8Clamp(Nullish(At(fftResult, i * 2 + 1), 0), FieldDen)
        ELSE ToUint8Clamp(Nullish(At(fftResult, i * 2), 0), FieldDen) ]

\* The bins 0 .. width*height - 1 the filter loops go through.
Bins(width, height) == 0..(width * height - 1)

applyLowPassFilter(imageData, width, height, cutoff) ==
  LET fftResult == applyFFT(imageData, width, height)
      kept == { i \in Bins(width, height) : LowPassKeeps(i, width, height, cutoff) }
  IN  Returned(MaskedPixels(imageData, width, height, fftResult, kept), TRUE, kept)

applyHighPassFilter(imageData, width, height, cutoff) ==
  LET fftResult == applyFFT(imageData, width, height)
      kept == { i \in Bins(width, height) : HighPassKeeps(i, width, height, cutoff) }
  IN  Returned(MaskedPixels(imageData, width, height, fftResult, kept), TRUE, kept)

applyBandPassFilter(imageData, width, height, lowCutoff, highCutoff) ==
  LET fftResult == applyFFT(imageData, width, height)
      kept == { i \in Bins(width, height) : BandPassKeeps(i, width, height, lowCutoff, highCutoff) }
  IN  Returned(MaskedPixels(imageData, width, height, fftResult, kept), TRUE, kept)

FilterTypes == { "lowpass", "highpass", "bandpass" }

\* A variant that would reject an unknown filter type.
applyFrequencyFilterStrict(imageData, width, height, filterType) ==
  IF filterType \in FilterTypes
  THEN CASE filterType = "lowpass" ->
              applyLowPassFilter(imageData, width, height, 2 * Min(width, height))
         [] filterType = "highpass" ->
              applyHighPassFilter(imageData, width, height, 2 * Min(width, height))
         [] filterType = "bandpass" ->
              applyBandPassFilter(imageData, width, height, Min(width, height),
                                  4 * Min(width, height))
  ELSE Thrown("Unknown filter type: " \o filterType)

\* Frequency.applyFrequencyFilter with the default cut-offs min(w,h)/4,
\* min(w,h)/8 and min(w,h)/2; the default branch returns imageData itself.
applyFrequencyFilter(imageData, width, height, filterType) ==
  CASE filterType = "lowpass" ->
         applyLowPassFilter(imageData, width, height, 2 * Min(width, height))
    [] filterType = "highpass" ->
         applyHighPassFilter(imageData, width, height, 2 * Min(width, height))
    [] filterType = "bandpass" ->
         applyBandPassFilter(imageData, width, height, Min(width, height),
                             4 * Min(width, height))
    [] OTHER -> Returned(imageData, FALSE, {})

\* The bins for which the loop of the filter applyFrequencyFilter selects
\* takes its keep branch.
applyFrequencyFilterKeeps(width, height, filterType) ==
  CASE filterType = "lowpass" ->
         { i \in Bins(width, height) : LowPassKeeps(i, width, height, 2 * Min(width, height)) }
    [] filterType = "highpass" ->
         { i \in Bins(width, height) : HighPassKeeps(i, width, height, 2 * Min(width, height)) }
    [] filterType = "bandpass" ->
         { i \in Bins(width, height) :
             BandPassKeeps(i, width, height, Min(width, height), 4 * Min(width, height)) }

\* a*a for |a| < 2^17 as <<millions, rest>>, to stay within 32-bit integers.
Square(a) ==
  LET m == IF a < 0 THEN -a ELSE a
      a1 == m \div 1000
      a0 == m % 1000
      t == 2 * a1 * a0 * 1000 + a0 * a0
  IN  << a1 * a1 + t \div 1000000, t % 1000000 >>

\* real^2 + imag^2 of bin i of a field, as <<millions, rest>>.
Power(fftData, i) ==
  LET re == Square(Nullish(At(fftData, i * 2), 0))
      im == Square(Nullish(At(fftData, i * 2 + 1), 0))
      lo == re[2] + im[2]
  IN  << re[1] + im[1] + lo \div 1000000, lo % 1000000 >>

PowerLess(a, b) == a[1] < b[1] \/ (a[1] = b[1] /\ a[2] < b[2])

\* The byte inverseFFT computes for each bin: 255 * log(1+m_i) / log(1+max),
\* where m is the magnitude.  A bin of magnitude 0 gives 0 and a bin of the
\* largest magnitude gives 255; the fields explored hold no other magnitude.
MagnitudeBytes(fftData, width, height) ==
  LET n == width * height
      power == [ i \in 0..(n - 1) |-> Power(fftData, i) ]
      maxPower == CHOOSE m \in { power[i] : i \in 0..(n - 1) } :
                    \A i \in 0..(n - 1) : ~PowerLess(m, power[i])
  IN  [ i \in 0..(n - 1) |->
        CASE power[i] = <<0, 0>> -> 0
          [] power[i] # <<0, 0>> /\ power[i] = maxPower -> 255 ]

\* A variant that would leave every bin at its own pixel.
ShiftedIndexUnshifted(x, y, width, height) == y * width + x

\* The output pixel inverseFFT writes bin (x, y) to:
\* floor((y + height/2) % height) * width + floor((x + width/2) % width).
ShiftedIndex(x, y, width, height) ==
  ((((2 * y + height) % (2 * height)) \div 2) * width)
  + (((2 * x + width) % (2 * width)) \div 2)

\* Frequency.inverseFFT: every bin in loop order writes R = G = B = its byte and
\* alpha 255 to its shifted pixel; a pixel no bin writes to keeps its zeros.
inverseFFT(fftData, width, height) ==
  LET byte == MagnitudeBytes(fftData, width, height)
  IN  [ j \in 1..(width * height * 4) |->
        LET q == (j - 1) \div 4
            c == (j - 1) % 4
            from == { i \in 0..(width * height - 1) :
                        ShiftedIndex(i % width, i \div width, width, height) = q }
        IN  IF from = {} THEN 0
            ELSE IF c = 3 THEN 255
            ELSE byte[CHOOSE i \in from : \A k \in from : k <= i] ]

\* Frequency.getFrequencySpectrum: width*height magnitudes, each given by its
\* square real^2 + imag^2.
getFrequencySpectrum(imageData, width, height) ==
  LET fftResult == applyFFT(imageData, width, height)
  IN  [ j \in 1..(width * height) |-> Power(fftResult, j - 1) ]

\* ------------------------------------------------------------- Projection
RECURSIVE IsqrtFrom(_, _)
IsqrtFrom(m, r) ==
  LET next == (r + m \div r) \div 2
  IN  IF next >= r THEN r ELSE IsqrtFrom(m, next)

\* floor(sqrt(m)) for m >= 0
Isqrt(m) == IF m = 0 THEN 0 ELSE IsqrtFrom(m, m)

\* Storing n / sqrt(d2) (n >= 0, d2 >= 1) into a Uint8ClampedArray element.
ToUint8ClampOverRoot(n, d2) ==
  IF n * n >= 255 * 255 * d2 THEN 255
  ELSE LET t == Isqrt((4 * n * n) \div d2)       \* floor(2n / sqrt(d2))
           f == t \div 2
       IN  IF t % 2 = 0 THEN f
           ELSE IF t * t * d2 = 4 * n * n /\ f % 2 = 0 THEN f
           ELSE f + 1

\* A channel sum of a row, column, path or ring read from imageData at the
\* pixel indices listed in `at`.
ChannelSum(imageData, at, c) ==
  SeqSum([ t \in 1..Len(at) |-> Nullish(At(imageData, at[t] * 4 + c), 0) ])

\* Every projection keeps alpha as imageData[index + 3] ?? 0.
ProjectionAlpha(imageData, index) == Nullish(At(imageData, index + 3), 0)

\* The mean of channel c over row y, counting only the pixels whose three
\* colour bytes are all defined.
RowMean(imageData, width, y, c) ==
  LET defined(i) == /\ At(imageData, (y * width + i) * 4) # Undefined
                    /\ At(imageData, (y * width + i) * 4 + 1) # Undefined
                    /\ At(imageData, (y * width + i) * 4 + 2) # Undefined
  IN  SeqSum([ t \in 1..width |->
        IF defined(t - 1) THEN At(imageData, (y * width + t - 1) * 4 + c) ELSE 0 ])

\* A variant that would truncate the row mean instead of rounding it.
applyHorizontalProjectionTruncating(imageData, width, height) ==
  Returned([ j \in 1..(width * height * 4) |->
             LET p == (j - 1) \div 4
                 c == (j - 1) % 4
             IN  IF c = 3 THEN ProjectionAlpha(imageData, p * 4)
                 ELSE Min(255, RowMean(imageData, width, p \div width, c) \div width) ],
           TRUE, {})

\* Projection.applyHorizontalProjection: each colour byte is the row's mean
\* as the Uint8ClampedArray stores it; alpha is the pixel's own.
applyHorizontalProjection(imageData, width, height) ==
  Returned([ j \in 1..(width * height * 4) |->
             LET p == (j - 1) \div 4
                 c == (j - 1) % 4
             IN  IF c = 3 THEN ProjectionAlpha(imageData, p * 4)
                 ELSE ToUint8Clamp(RowMean(imageData, width, p \div width, c), width) ],
           TRUE, {})

\* Projection.applyVerticalProjection
applyVerticalProjection(imageData, width, height) ==
  Returned([ j \in 1..(width * height * 4) |->
             LET p == (j - 1) \div 4
                 c == (j - 1) % 4
                 x == p % width
             IN  IF c = 3 THEN ProjectionAlpha(imageData, p * 4)
                 ELSE ToUint8Clamp(
                        ChannelSum(imageData, [ t \in 1..height |-> (t - 1) * width + x ], c),
                        height) ],
           TRUE, {})

\* The step of the radial sampling path: for the pixel at offset (dx, dy) from
\* the centre and step i, <<round(cos(a) * i), round(sin(a) * i)>> with
\* a = atan2(dy, dx) + i * 0.1, tabulated for the offsets of images up to 4x4.
RadialStep ==
  <<-2, -2, 0>> :> <<0, 0>> @@ <<-2, -2, 1>> :> <<-1, -1>> @@
  <<-2, -2, 2>> :> <<-1, -2>> @@ <<-1, -2, 0>> :> <<0, 0>> @@
  <<-1, -2, 1>> :> <<0, -1>> @@ <<-1, -2, 2>> :> <<-1, -2>> @@
  <<0, -2, 0>> :> <<0, 0>> @@ <<0, -2, 1>> :> <<0, -1>> @@
  <<0, -2, 2>> :> <<0, -2>> @@ <<1, -2, 0>> :> <<0, 0>> @@
  <<1, -2, 1>> :> <<1, -1>> @@ <<1, -2, 2>> :> <<1, -2>> @@
  <<2, -2, 0>> :> <<0, 0>> @@ <<2, -2, 1>> :> <<1, -1>> @@
  <<2, -2, 2>> :> <<2, -1>> @@ <<-2, -1, 0>> :> <<0, 0>> @@
  <<-2, -1, 1>> :> <<-1, -1>> @@ <<-2, -1, 2>> :> <<-2, -1>> @@
  <<-1, -1, 0>> :> <<0, 0>> @@ <<-1, -1, 1>> :> <<-1, -1>> @@
  <<0, -1, 0>> :> <<0, 0>> @@ <<0, -1, 1>> :> <<0, -1>> @@
  <<1, -1, 0>> :> <<0, 0>> @@ <<1, -1, 1>> :> <<1, -1>> @@
  <<2, -1, 0>> :> <<0, 0>> @@ <<2, -1, 1>> :> <<1, 0>> @@
  <<2, -1, 2>> :> <<2, -1>> @@ <<-2, 0, 0>> :> <<0, 0>> @@
  <<-2, 0, 1>> :> <<-1, 0>> @@ <<-2, 0, 2>> :> <<-2, 0>> @@
  <<-1, 0, 0>> :> <<0, 0>> @@ <<-1, 0, 1>> :> <<-1, 0>> @@
  <<0, 0, 0>> :> <<0, 0>> @@ <<1, 0, 0>> :> <<0, 0>> @@
  <<1, 0, 1>> :> <<1, 0>> @@ <<2, 0, 0>> :> <<0, 0>> @@
  <<2, 0, 1>> :> <<1, 0>> @@ <<2, 0, 2>> :> <<2, 0>> @@
  <<-2, 1, 0>> :> <<0, 0>> @@ <<-2, 1, 1>> :> <<-1, 0>> @@
  <<-2, 1, 2>> :> <<-2, 1>> @@ <<-1, 1, 0>> :> <<0, 0>> @@
  <<-1, 1, 1>> :> <<-1, 1>> @@ <<0, 1, 0>> :> <<0, 0>> @@
  <<0, 1, 1>> :> <<0, 1>> @@ <<1, 1, 0>> :> <<0, 0>> @@
  <<1, 1, 1>> :> <<1, 1>> @@ <<2, 1, 0>> :> <<0, 0>> @@
  <<2, 1, 1>> :> <<1, 1>> @@ <<2, 1, 2>> :> <<2, 1>> @@
  <<-2, 2, 0>> :> <<0, 0>> @@ <<-2, 2, 1>> :> <<-1, 1>> @@
  <<-2, 2, 2>> :> <<-2, 1>> @@ <<-1, 2, 0>> :> <<0, 0>> @@
  <<-1, 2, 1>> :> <<-1, 1>> @@ <<-1, 2, 2>> :> <<-1, 2>> @@
  <<0, 2, 0>> :> <<0, 0>> @@ <<0, 2, 1>> :> <<0, 1>> @@
  <<0, 2, 2>> :> <<0, 2>> @@ <<1, 2, 0>> :> <<0, 0>> @@
  <<1, 2, 1>> :> <<0, 1>> @@ <<1, 2, 2>> :> <<1, 2>> @@
  <<2, 2, 0>> :> <<0, 0>> @@ <<2, 2, 1>> :> <<1, 1>> @@
  <<2, 2, 2>> :> <<1, 2>>

\* dx * dx + dy * dy, the square of the distance the sums of pixel p are
\* divided by.
RadialDistance2(width, height, p) ==
  LET dx == (p % width) - width \div 2
      dy == (p \div width) - height \div 2
  IN  dx * dx + dy * dy

\* Projection.applyRadialProjection: the sum along the path divided by the
\* distance; at the centre the distance is 0 and the division yields NaN
\* (stored as 0) for a zero sum and Infinity (stored as 255) otherwise.
applyRadialProjection(imageData, width, height) ==
  LET centerX == width \div 2
      centerY == height \div 2
  IN  Returned([ j \in 1..(width * height * 4) |->
        LET p == (j - 1) \div 4
            c == (j - 1) % 4
            dx == (p % width) - centerX
            dy == (p \div width) - centerY
            d2 == RadialDistance2(width, height, p)
            steps == [ t \in 1..(Isqrt(d2) + 1) |-> RadialStep[<<dx, dy, t - 1>>] ]
            inside == SelectSeq(steps, LAMBDA s :
                        /\ centerX + s[1] >= 0 /\ centerX + s[1] < width
                        /\ centerY + s[2] >= 0 /\ centerY + s[2] < height)
            at == [ t \in 1..Len(inside) |->
                      (centerY + inside[t][2]) * width + centerX + inside[t][1] ]
            sum == ChannelSum(imageData, at, c)
        IN  IF c = 3 THEN ProjectionAlpha(imageData, p * 4)
            ELSE IF d2 = 0 THEN (IF sum = 0 THEN 0 ELSE 255)
            ELSE ToUint8ClampOverRoot(sum, d2) ],
      TRUE, {})

\* The ring of the angular projection: <<ox, oy, n>> says that n of the 360
\* steps i give <<round(cos(i deg) * 5), round(sin(i deg) * 5)>> = <<ox, oy>>.
AngularRing ==
  << <<-5, -2, 8>>, <<-5, -1, 12>>, <<-5, 0, 11>>, <<-5, 1, 12>>,
    <<-5, 2, 8>>, <<-4, -4, 1>>, <<-4, -3, 15>>, <<-4, -2, 4>>, <<-4, 2, 5>>,
    <<-4, 3, 14>>, <<-4, 4, 1>>, <<-3, -4, 15>>, <<-3, 4, 14>>,
    <<-2, -5, 8>>, <<-2, -4, 4>>, <<-2, 4, 5>>, <<-2, 5, 8>>, <<-1, -5, 12>>,
    <<-1, 5, 12>>, <<0, -5, 11>>, <<0, 5, 11>>, <<1, -5, 12>>, <<1, 5, 12>>,
    <<2, -5, 8>>, <<2, -4, 4>>, <<2, 4, 4>>, <<2, 5, 8>>, <<3, -4, 15>>,
    <<3, 4, 15>>, <<4, -4, 1>>, <<4, -3, 15>>, <<4, -2, 4>>, <<4, 2, 5>>,
    <<4, 3, 14>>, <<4, 4, 1>>, <<5, -2, 8>>, <<5, -1, 12>>, <<5, 0, 11>>,
    <<5, 1, 12>>, <<5, 2, 8>> >>


\* A variant that would take the ring around each output pixel instead of
\* around the centre of the image.
applyAngularProjectionAroundPixel(imageData, width, height) ==
  LET RingSum(x, y, c) ==
        SeqSum([ t \in 1..Len(AngularRing) |->
          LET px == x + AngularRing[t][1]
              py == y + AngularRing[t][2]
          IN  IF px >= 0 /\ px < width /\ py >= 0 /\ py < height
              THEN AngularRing[t][3] * Nullish(At(imageData, (py * width + px) * 4 + c), 0)
              ELSE 0 ])
  IN  Returned([ j \in 1..(width * height * 4) |->
                 LET p == (j - 1) \div 4
                     c == (j - 1) % 4
                 IN  IF c = 3 THEN ProjectionAlpha(imageData, p * 4)
                     ELSE ToUint8Clamp(RingSum(p % width, p \div width, c), 360) ],
               TRUE, {})

\* Projection.applyAngularProjection: every pixel gets the ring's channel sums
\* over 360 and its own alpha.
applyAngularProjection(imageData, width, height) ==
  LET centerX == width \div 2
      centerY == height \div 2
      RingSum(c) ==
        SeqSum([ t \in 1..Len(AngularRing) |->
          LET px == centerX + AngularRing[t][1]
              py == centerY + AngularRing[t][2]
          IN  IF px >= 0 /\ px < width /\ py >= 0 /\ py < height
              THEN AngularRing[t][3] * Nullish(At(imageData, (py * width + px) * 4 + c), 0)
              ELSE 0 ])
  IN  Returned([ j \in 1..(width * height * 4) |->
                 LET p == (j - 1) \div 4
                     c == (j - 1) % 4
                 IN  IF c = 3 THEN ProjectionAlpha(imageData, p * 4)
                     ELSE ToUint8Clamp(RingSum(c), 360) ],
               TRUE, {})

\* Offsets offered to the isometric projection; the rotations keep their
\* default 0, for which every rotation step is the identity.
IsoOffsets == {0, 1}

\* The background pixel of the isometric projection.
IsoBackground == <<20, 20, 40, 255>>

\* 1000 * (0.299 r + 0.587 g + 0.114 b) of the sampled source pixel.
IsoBrightness(imageData, srcIndex) ==
  299 * OrElse(At(imageData, srcIndex), 0)
  + 587 * OrElse(At(imageData, srcIndex + 1), 0)
  + 114 * OrElse(At(imageData, srcIndex + 2), 0)

\* isoX = floor((x3d - y3d) * 0.5 + width * 0.2 + offsetX)
IsoX(x, y, width, height, offsetX) ==
  FloorDiv(5 * ((2 * x - width) - (2 * y - height)) + 4 * width + 20 * offsetX, 20)

\* isoY = floor((x3d + y3d) * 0.3 + height * 0.1 + offsetY - brightness * 0.2)
IsoY(x, y, width, height, offsetY, brightness) ==
  FloorDiv(1500 * ((2 * x - width) + (2 * y - height)) + 1000 * height
           + 10000 * offsetY - 2 * brightness, 10000)

\* Projection.applyIsometricProjection with rotations 0: the background, then
\* one shaded pixel per stride-4 sample that lands inside the image, later
\* samples overwriting earlier ones.
applyIsometricProjection(imageData, width, height, offsetX, offsetY) ==
  LET xs == SamplePositions(width)
      ys == SamplePositions(height)
      Sample(t) == << xs[((t - 1) % Len(xs)) + 1], ys[((t - 1) \div Len(xs)) + 1] >>
      Bright(t) == IsoBrightness(imageData, (Sample(t)[2] * width + Sample(t)[1]) * 4)
      Lands(t, q) ==
        LET isoX == IsoX(Sample(t)[1], Sample(t)[2], width, height, offsetX)
            isoY == IsoY(Sample(t)[1], Sample(t)[2], width, height, offsetY, Bright(t))
        IN  /\ isoX >= 0 /\ isoX < width /\ isoY >= 0 /\ isoY < height
            /\ isoY * width + isoX = q
  IN  Returned([ j \in 1..(width * height * 4) |->
        LET q == (j - 1) \div 4
            c == (j - 1) % 4
            from == { t \in 1..(Len(xs) * Len(ys)) : Lands(t, q) }
        IN  IF from = {} THEN IsoBackground[c + 1]
            ELSE LET last == CHOOSE t \in from : \A k \in from : k <= t
                     lightness == Min(255000, Bright(last) + 60000)
                 IN  CASE c = 0 -> ToUint8Clamp(8 * lightness, 10000)
                       [] c = 1 -> ToUint8Clamp(9 * lightness, 10000)
                       [] c = 2 -> ToUint8Clamp(lightness, 1000)
                       [] c = 3 -> 255 ],
      TRUE, {})

ProjectionTypes == { "horizontal", "vertical", "radial", "angular", "isometric" }

\* The default branch of applyCustomProjection: a new array of
\* width*height*4 zeros receiving imageData[i] ?? 0 for every i it has.
CopyOf(imageData, width, height) ==
  [ j \in 1..(width * height * 4) |->
      IF j <= Len(imageData) THEN Nullish(At(imageData, j - 1), 0) ELSE 0 ]

\* A variant that would throw for an unknown projection type.
applyCustomProjectionStrict(imageData, width, height, projectionType, offsetX, offsetY) ==
  CASE projectionType = "isometric" ->
         applyIsometricProjection(imageData, width, height, offsetX, offsetY)
    [] projectionType = "horizontal" -> applyHorizontalProjection(imageData, width, height)
    [] projectionType = "vertical" -> applyVerticalProjection(imageData, width, height)
    [] projectionType = "radial" -> applyRadialProjection(imageData, width, height)
    [] projectionType = "angular" -> applyAngularProjection(imageData, width, height)
    [] OTHER -> Thrown("Unknown projection type")

\* Projection.applyCustomProjection: the default branch copies imageData
\* into a new array of width*height*4 bytes.
applyCustomProjection(imageData, width, height, projectionType, offsetX, offsetY) ==
  CASE projectionType = "isometric" ->
         applyIsometricProjection(imageData, width, height, offsetX, offsetY)
    [] projectionType = "horizontal" -> applyHorizontalProjection(imageData, width, height)
    [] projectionType = "vertical" -> applyVerticalProjection(imageData, width, height)
    [] projectionType = "radial" -> applyRadialProjection(imageData, width, height)
    [] projectionType = "angular" -> applyAngularProjection(imageData, width, height)
    [] OTHER -> Returned(CopyOf(imageData, width, height), TRUE, {})

\* Projection.applyMultipleProjections: the four results in a fixed order.
applyMultipleProjections(imageData, width, height) ==
  << applyHorizontalProjection(imageData, width, height).value,
     applyVerticalProjection(imageData, width, height).value,
     applyRadialProjection(imageData, width, height).value,
     applyAngularProjection(imageData, width, height).value >>

\* ---------------------------------------------------------- BlurDetection
\* Thrice the grayscale value (r + g + b) / 3 of pixel p of an edge result.
GraySum(edges, p) ==
  OrElse(At(edges, p * 4), 0) + OrElse(At(edges, p * 4 + 1), 0)
  + OrElse(At(edges, p * 4 + 2), 0)

\* Nine times the squared gradient magnitude vGray^2 + hGray^2 of pixel p.
Gradient2(verticalResult, horizontalResult, p) ==
  GraySum(verticalResult, p) * GraySum(verticalResult, p)
  + GraySum(horizontalResult, p) * GraySum(horizontalResult, p)

\* Naturals beyond 2^31 are kept as four limbs of 20 bits, the least
\* significant first; they carry the square roots to BigRootBits binary
\* places, enough to tell which byte a normalised magnitude rounds to.
BigBase == 2 ^ 20
BigRootBits == 40
BigTestBits == 30

RECURSIVE BigCarry(_, _, _)
\* Limbs i.. of s with the carry c added, each brought into 0 .. BigBase - 1.
BigCarry(s, i, c) ==
  IF i > Len(s) THEN << >>
  ELSE LET v == s[i] + c
           q == FloorDiv(v, BigBase)
       IN  << v - q * BigBase >> \o BigCarry(s, i + 1, q)

BigOfInt(n) == << n % BigBase, n \div BigBase, 0, 0 >>

BigToInt(a) == a[1] + a[2] * BigBase

BigAdd(a, b) == BigCarry([ i \in DOMAIN a |-> a[i] + b[i] ], 1, 0)

\* a - b for a >= b
BigSub(a, b) == BigCarry([ i \in DOMAIN a |-> a[i] - b[i] ], 1, 0)

\* a * c for 0 <= c < 2048
BigTimes(a, c) == BigCarry([ i \in DOMAIN a |-> a[i] * c ], 1, 0)

BigLess(a, b) ==
  \E i \in DOMAIN a : a[i] < b[i] /\ \A j \in (i + 1)..Len(a) : a[j] = b[j]

\* a * 2^k
BigShl(a, k) ==
  LET q == k \div 20
      r == k % 20
      moved == [ i \in DOMAIN a |-> IF i > q THEN a[i - q] ELSE 0 ]
  IN  BigTimes(BigTimes(moved, 2 ^ (r \div 2)), 2 ^ (r - r \div 2))

\* floor(a / 2^k)
BigShr(a, k) ==
  LET q == k \div 20
      r == k % 20
      limb(i) == IF i <= Len(a) THEN a[i] ELSE 0
  IN  Stored([ i \in DOMAIN a |->
        limb(i + q) \div (2 ^ r) + (limb(i + q + 1) % (2 ^ r)) * (2 ^ (20 - r)) ])

\* 2^k
BigPow2(k) == Stored([ i \in 1..4 |-> IF i - 1 = k \div 20 THEN 2 ^ (k % 20) ELSE 0 ])

\* The number of binary digits of a.
BigBits(a) ==
  LET used == { i \in DOMAIN a : a[i] # 0 }
  IN  IF used = {} THEN 0
      ELSE LET top == CHOOSE i \in used : \A j \in used : j <= i
           IN  20 * (top - 1) + (CHOOSE k \in 1..20 : 2 ^ (k - 1) <= a[top] /\ a[top] < 2 ^ k)

RECURSIVE BigDivFrom(_, _, _, _)
\* Limbs 1..i of a, with rem carried in from above, divided by d <= 1000:
\* the quotient q and the remainder r.
BigDivFrom(a, d, i, rem) ==
  IF i = 0 THEN [ q |-> << >>, r |-> rem ]
  ELSE LET v == rem * BigBase + a[i]
           rest == BigDivFrom(a, d, i - 1, v % d)
       IN  [ q |-> rest.q \o << v \div d >>, r |-> rest.r ]

\* A double is m * 2^e with m below 2^53.  The result of an operation is the
\* exact value N * 2^e rounded to 53 binary digits, a tie to the even one.
DoubleRound(N, e) ==
  IF BigBits(N) <= 53 THEN [ m |-> N, e |-> e ]
  ELSE LET s == BigBits(N) - 53
           q == BigShr(N, s)
           rem == BigSub(N, BigShl(q, s))
           half == BigPow2(s - 1)
           up == BigLess(half, rem) \/ (rem = half /\ q[1] % 2 = 1)
       IN  [ m |-> IF up THEN BigAdd(q, BigOfInt(1)) ELSE q, e |-> e + s ]

\* The double a decimal literal n/d in [1/256, 1) denotes.
DoubleOf(n, d) ==
  LET j == CHOOSE i \in 0..8 : d <= n * 2 ^ i /\ n * 2 ^ i < 2 * d
      dv == BigDivFrom(BigShl(BigOfInt(n), 52 + j), d, 4, 0)
      up == 2 * dv.r > d \/ (2 * dv.r = d /\ dv.q[1] % 2 = 1)
  IN  [ m |-> IF up THEN BigAdd(dv.q, BigOfInt(1)) ELSE dv.q, e |-> -(52 + j) ]

\* a * c for a double a and a byte c
DoubleTimes(a, c) == DoubleRound(BigTimes(a.m, c), a.e)

\* a + b for doubles
DoubleAdd(a, b) ==
  IF BigBits(a.m) = 0 THEN b
  ELSE IF BigBits(b.m) = 0 THEN a
  ELSE LET e == Min(a.e, b.e)
       IN  DoubleRound(BigAdd(BigShl(a.m, a.e - e), BigShl(b.m, b.e - e)), e)

RECURSIVE BigRootFrom(_, _, _)
\* Math.sqrt one binary place at a time: s = floor(sqrt(N)), r = N - s*s,
\* and n places still to come.
BigRootFrom(s, r, n) ==
  IF n = 0 THEN s
  ELSE LET r4 == BigTimes(r, 4)
           trial == BigAdd(BigTimes(s, 4), BigOfInt(1))
       IN  IF BigLess(r4, trial)
           THEN BigRootFrom(BigTimes(s, 2), r4, n - 1)
           ELSE BigRootFrom(BigAdd(BigTimes(s, 2), BigOfInt(1)), BigSub(r4, trial), n - 1)

\* floor(sqrt(g) * 2^BigRootBits)
BigRoot(g) == BigRootFrom(BigOfInt(Isqrt(g)), BigOfInt(g - Isqrt(g) * Isqrt(g)), BigRootBits)

\* magnitudes[pixelIndex] = magnitude: the Float32Array keeps the nearest
\* value with a 24-bit significand.  For the magnitude sqrt(g)/3 with root
\* y = BigRoot(g) the stored value is k / 2^t.
Float32Of(g, y) ==
  IF g = 0 THEN [ k |-> 0, t |-> 23 ]
  ELSE LET e == CHOOSE x \in -2..8 :
                  9 * (4 ^ (x + 2)) <= 16 * g /\ 16 * g < 9 * (4 ^ (x + 3))
           t == 23 - e
       IN  [ k |-> (BigToInt(BigShr(y, BigRootBits - t - 1)) + 3) \div 6, t |-> t ]

\* How twice the normalised value 2 * 255 * (stored - min) / (max - min) of a
\* stored magnitude compares with the odd number c: with the magnitudes
\* tripled this is 1530 k / 2^t against c sqrt(gMax) + (510 - c) sqrt(gMin).
\* Where both roots are whole numbers the comparison is exact; elsewhere the
\* right-hand side is known to within 4 units of 2^-BigTestBits, and a
\* stored value that close to it is not decided here.
CompareTwice(stored, yMin, yMax, whole, c) ==
  LET lhs == BigTimes(BigShl(BigOfInt(stored.k), BigTestBits - stored.t), 1530)
      rhs == BigAdd(BigShr(BigTimes(yMax, c), BigRootBits - BigTestBits),
                    BigShr(BigTimes(yMin, 510 - c), BigRootBits - BigTestBits))
  IN  CASE BigLess(lhs, rhs) -> "below"
        [] whole /\ lhs = rhs -> "tie"
        [] whole /\ BigLess(rhs, lhs) -> "above"
        [] ~whole /\ ~BigLess(lhs, BigAdd(rhs, BigOfInt(4))) -> "above"

RECURSIVE HalvesBelow(_, _, _, _, _, _)
\* The number of j in 0..254 whose odd number 2j + 1 lies below twice the
\* normalised value, found by bisection between lo and hi.
HalvesBelow(stored, yMin, yMax, whole, lo, hi) ==
  IF lo = hi THEN lo
  ELSE LET mid == (lo + hi) \div 2
       IN  IF CompareTwice(stored, yMin, yMax, whole, 2 * mid + 1) = "above"
           THEN HalvesBelow(stored, yMin, yMax, whole, mid + 1, hi)
           ELSE HalvesBelow(stored, yMin, yMax, whole, lo, mid)

\* result[index] = pixelValue: the normalised magnitude clamped to [0, 255]
\* and rounded as the Uint8ClampedArray rounds (a tie to the even byte).
NormalizedByte(stored, yMin, yMax, whole) ==
  LET j == HalvesBelow(stored, yMin, yMax, whole, 0, 255)
  IN  IF j = 255 THEN 255
      ELSE IF CompareTwice(stored, yMin, yMax, whole, 2 * j + 1) = "tie" /\ j % 2 = 1
      THEN j + 1
      ELSE j

\* BlurDetection.combineResultsIntoMagnitude: the magnitudes, stored in a
\* Float32Array, are min-max normalised into the red byte against the
\* unrounded minimum and maximum; green and blue are 0 and alpha is 255.
combineResultsIntoMagnitude(verticalResult, horizontalResult, width, height) ==
  LET n == width * height
      g2 == Stored([ q \in 1..n |-> Gradient2(verticalResult, horizontalResult, q - 1) ])
      gMax == IF n = 0 THEN 0
              ELSE CHOOSE m \in { g2[q] : q \in 1..n } : \A q \in 1..n : g2[q] <= m
      gMin == IF n = 0 THEN 0
              ELSE CHOOSE m \in { g2[q] : q \in 1..n } : \A q \in 1..n : g2[q] >= m
      yMax == BigRoot(gMax)
      yMin == BigRoot(gMin)
      whole == Isqrt(gMax) * Isqrt(gMax) = gMax /\ Isqrt(gMin) * Isqrt(gMin) = gMin
      red == Stored([ q \in 1..n |->
               IF gMax > gMin
               THEN NormalizedByte(Float32Of(g2[q], BigRoot(g2[q])), yMin, yMax, whole)
               ELSE 0 ])
  IN  [ j \in 1..Len(verticalResult) |->
        LET p == (j - 1) \div 4
            c == (j - 1) % 4
        IN  IF p >= n THEN 0
            ELSE CASE c = 0 -> red[p + 1]
                   [] c = 1 -> 0
                   [] c = 2 -> 0
                   [] c = 3 -> 255 ]

\* BlurDetection.applyBothFilters / detectBlur: the two edge filters, then
\* the combination.
detectBlur(imageData, width, height) ==
  LET verticalResult == applyFilter(imageData, width, height, "Vertical Edge").value
      horizontalResult == applyFilter(imageData, width, height, "Horizontal Edge").value
  IN  Returned(combineResultsIntoMagnitude(verticalResult, horizontalResult, width, height),
               TRUE, {})

\* ---------------------------------------------------------------- dipImage
\* A variant store that would keep the low eight bits instead of saturating.
WrapByte(v) == v % 256

\* The byte a Uint8ClampedArray element takes from an integer.
ClampByte(v) == Max(0, Min(255, v))

\* A variant of setPixel that would store at (y*width + x)*4 unchecked; a
\* typed array drops a store outside its length.
setPixelUnchecked(data, width, height, x, y, px) ==
  [ j \in 1..Len(data) |->
      IF (j - 1) \div 4 = y * width + x /\ y * width + x >= 0
      THEN ClampByte(px[((j - 1) % 4) + 1])
      ELSE data[j] ]

\* dipImage.setPixel on the array of a width x height image: a store of
\* r, g, b, a at (y*width + x)*4 when (x, y) is inside, nothing otherwise.
setPixel(data, width, height, x, y, px) ==
  IF x >= 0 /\ x < width /\ y >= 0 /\ y < height
  THEN [ j \in 1..Len(data) |->
           IF (j - 1) \div 4 = y * width + x THEN ClampByte(px[((j - 1) % 4) + 1])
           ELSE data[j] ]
  ELSE data

\* dipImage.getPixel
getPixel(data, width, height, x, y) ==
  IF x >= 0 /\ x < width /\ y >= 0 /\ y < height
  THEN [ c \in 1..4 |-> Nullish(At(data, (y * width + x) * 4 + c - 1), 0) ]
  ELSE <<0, 0, 0, 0>>

\* A variant that would truncate the luminance: Math.floor.
MathFloor(a) ==
  IF a.e >= 0 THEN BigToInt(BigShl(a.m, a.e))
  ELSE BigToInt(BigShr(a.m, -a.e))

\* Math.round of a double below 2^31: the nearest integer, ties towards
\* +Infinity.
MathRound(a) ==
  IF a.e >= 0 THEN BigToInt(BigShl(a.m, a.e))
  ELSE BigToInt(BigShr(BigAdd(a.m, BigPow2(-a.e - 1)), -a.e))

\* 0.299 * r + 0.587 * g + 0.114 * b, evaluated left to right in doubles.
Luminance(r, g, b) ==
  DoubleAdd(DoubleAdd(DoubleTimes(DoubleOf(299, 1000), r),
                      DoubleTimes(DoubleOf(587, 1000), g)),
            DoubleTimes(DoubleOf(114, 1000), b))

\* dipImage.toGrayscale: a new image whose pixels are set to
\* (gray, gray, gray) with setPixel's default alpha of 255.
toGrayscale(data, width, height) ==
  LET grayValue ==
        Stored([ q \in 1..(width * height) |->
          LET px == getPixel(data, width, height, (q - 1) % width, (q - 1) \div width)
          IN  MathRound(Luminance(px[1], px[2], px[3])) ])
  IN  Returned([ j \in 1..(width * height * 4) |->
                 IF (j - 1) % 4 = 3 THEN 255 ELSE ClampByte(grayValue[(j - 1) \div 4 + 1]) ],
               TRUE, {})

\* A variant of copyFrom that would copy whenever the two buffers have the
\* same length.
copyFromSameLength(data, width, height, from) ==
  IF Len(data) = Len(from.data)
  THEN [ j \in 1..Len(data) |-> Nullish(At(from.data, j - 1), 0) ]
  ELSE data

\* dipImage.copyFrom: every byte of this image is taken from the other one
\* when both dimensions agree, and nothing is done otherwise.
copyFrom(data, width, height, from) ==
  IF width = from.width /\ height = from.height
  THEN [ j \in 1..Len(data) |-> Nullish(At(from.data, j - 1), 0) ]
  ELSE data

\* dipImage.clear: every byte of the array becomes 0.
clear(data) == [ j \in 1..Len(data) |-> 0 ]

\* The alpha parameter of setPixel has the default 255.
WithDefaultAlpha(px) == IF Len(px) = 3 THEN px \o << 255 >> ELSE px

\* A variant of clone that would hand the new image the array of this one.
cloneSharingData(data, width, height) == Returned(data, FALSE, {})

\* dipImage.clone: a new image with a copy of every byte.
clone(data, width, height) ==
  Returned([ j \in 1..(width * height * 4) |-> Nullish(At(data, j - 1), 0) ], TRUE, {})

\* dipImage.applySpatialFilter with a kernel of the registry: taps outside the
\* image are skipped, the sums are clamped and stored with alpha 255.
applySpatialFilter(data, width, height, filterName) ==
  LET filter == Filters[filterName]
      kernelSize == Len(filter.k)
      halfKernel == kernelSize \div 2
      Tap(x, y, c, ky, kx) ==
        LET px == x + kx - halfKernel
            py == y + ky - halfKernel
        IN  IF px >= 0 /\ px < width /\ py >= 0 /\ py < height
            THEN getPixel(data, width, height, px, py)[c + 1] * filter.k[ky + 1][kx + 1]
            ELSE 0
  IN  Returned([ j \in 1..(width * height * 4) |->
        LET p == (j - 1) \div 4
            c == (j - 1) % 4
        IN  IF c = 3 THEN 255
            ELSE ToUint8Clamp(
                   SeqSum([ t \in 1..(kernelSize * kernelSize) |->
                            Tap(p % width, p \div width, c,
                                (t - 1) \div kernelSize, (t - 1) % kernelSize) ]),
                   filter.den) ],
      TRUE, {})

\* ------------------------------------------------------------ the program
VARIABLES
  width, height,   \* the dimensions of the caller's image
  data,            \* the caller's pixel buffer, the argument of every call
  writes,          \* setPixel calls made on it so far
  pc,              \* "ready", "returned" (a call has ended), "written"
  op,              \* the last call: function, selector and numeric arguments
  given,           \* the bytes of the argument when the call was made
  result,          \* what the call handed back
  other,           \* a second image, the argument of copyFrom
  done             \* the source rows a row-wise run has processed, in order

vars == << width, height, data, writes, pc, op, given, result, other, done >>

\* No second image is at hand.
NoImage == [ width |-> 0, height |-> 0, data |-> << >> ]

NoCall == [ fn |-> "", sel |-> "", a |-> 0, b |-> 0 ]

Nothing == [ ok |-> FALSE, fresh |-> FALSE, value |-> << >>, kept |-> {}, error |-> "" ]

\* Selector strings a caller may pass that no dispatcher knows.
BogusTypes == { "bogus-type", "invalidtype", "Horizontal" }

\* new dipImage(width, height), or the tests' 2x2 image.
Init ==
  /\ width \in Dims
  /\ height \in Dims
  /\ \/ data = Zeros(width * height * 4)
     \/ width = 2 /\ height = 2 /\ data = testImageData
  /\ writes = 0
  /\ pc = "ready"
  /\ op = NoCall
  /\ given = << >>
  /\ result = Nothing
  /\ other = NoImage
  /\ done = << >>

\* A variant in which a transform would write its result over imageData.
ArgAfterInPlace(imageData, r) ==
  IF r.ok /\ Len(r.value) = Len(imageData) /\ Len(imageData) > 0 /\ r.value[1] \in Nat
  THEN r.value ELSE imageData

\* The argument array after a call: every store of the transforms goes to
\* the array they allocate, none to imageData.
ArgAfter(imageData, r) == imageData

\* The caller fills its image.
SetPixel ==
  /\ pc = "ready"
  /\ writes < MaxWrites
  /\ \E x \in -1..width, y \in -1..height, px \in Palette :
       data' = setPixel(data, width, height, x, y, px)
  /\ writes' = writes + 1
  /\ UNCHANGED << width, height, pc, op, given, result, other, done >>

\* A call of fn(data, width, height, ...) that hands back r.
Call(fn, sel, a, b, r) ==
  /\ pc = "ready"
  /\ op' = [ fn |-> fn, sel |-> sel, a |-> a, b |-> b ]
  /\ given' = data
  /\ result' = r
  /\ data' = ArgAfter(data, r)
  /\ pc' = "returned"
  /\ UNCHANGED << width, height, writes, other, done >>

CallApplyFilter ==
  \E kernelName \in RequestedNames :
    Call("applyFilter", kernelName, 0, 0, applyFilter(data, width, height, kernelName))

CallApplyFFT ==
  Call("applyFFT", "", 0, 0, Returned(applyFFT(data, width, height), TRUE, {}))

CallLowPass ==
  \E cutoff \in Cutoffs :
    Call("applyLowPassFilter", "", cutoff, 0,
         applyLowPassFilter(data, width, height, cutoff))

CallHighPass ==
  \E cutoff \in Cutoffs :
    Call("applyHighPassFilter", "", cutoff, 0,
         applyHighPassFilter(data, width, height, cutoff))

CallBandPass ==
  \E lowCutoff \in Cutoffs, highCutoff \in Cutoffs :
    /\ lowCutoff <= highCutoff
    /\ Call("applyBandPassFilter", "", lowCutoff, highCutoff,
            applyBandPassFilter(data, width, height, lowCutoff, highCutoff))

CallFrequencyFilter ==
  \E filterType \in FilterTypes \cup BogusTypes :
    Call("applyFrequencyFilter", filterType, 0, 0,
         applyFrequencyFilter(data, width, height, filterType))

\* The get-frequency-domain pipeline: inverseFFT of the forward field.
CallInverseFFT ==
  Call("inverseFFT", "", 0, 0,
       Returned(inverseFFT(applyFFT(data, width, height), width, height), TRUE, {}))

CallFrequencySpectrum ==
  Call("getFrequencySpectrum", "", 0, 0,
       Returned(getFrequencySpectrum(data, width, height), TRUE, {}))

CallHorizontal ==
  Call("applyHorizontalProjection", "", 0, 0, applyHorizontalProjection(data, width, height))

CallVertical ==
  Call("applyVerticalProjection", "", 0, 0, applyVerticalProjection(data, width, height))

CallRadial ==
  Call("applyRadialProjection", "", 0, 0, applyRadialProjection(data, width, height))

CallAngular ==
  Call("applyAngularProjection", "", 0, 0, applyAngularProjection(data, width, height))

CallIsometric ==
  \E offsetX \in IsoOffsets, offsetY \in IsoOffsets :
    Call("applyIsometricProjection", "", offsetX, offsetY,
         applyIsometricProjection(data, width, height, offsetX, offsetY))

CallCustomProjection ==
  \E projectionType \in ProjectionTypes \cup BogusTypes :
    Call("applyCustomProjection", projectionType, 0, 0,
         applyCustomProjection(data, width, height, projectionType, 0, 0))

CallMultipleProjections ==
  Call("applyMultipleProjections", "", 0, 0,
       Returned(applyMultipleProjections(data, width, height), TRUE, {}))

CallDetectBlur ==
  Call("detectBlur", "", 0, 0, detectBlur(data, width, height))

CallToGrayscale ==
  Call("toGrayscale", "", 0, 0, toGrayscale(data, width, height))

CallClone ==
  Call("clone", "", 0, 0, clone(data, width, height))

CallApplySpatialFilter ==
  \E filterName \in FilterNames :
    Call("applySpatialFilter", filterName, 0, 0,
         applySpatialFilter(data, width, height, filterName))

\* Functions whose result is one array of bytes.
ByteResults ==
  { "applyFilter", "applyLowPassFilter", "applyHighPassFilter", "applyBandPassFilter",
    "applyFrequencyFilter", "inverseFFT", "applyHorizontalProjection",
    "applyVerticalProjection", "applyRadialProjection", "applyAngularProjection",
    "applyIsometricProjection", "applyCustomProjection", "detectBlur",
    "toGrayscale", "clone", "applySpatialFilter" }

\* How many leading bytes of a result the caller may overwrite.
MaxPoke == 1

\* The caller stores into the array it was handed; when that array is the
\* argument itself the store lands in the caller's image too.
WriteResult ==
  /\ pc = "returned"
  /\ result.ok
  /\ op.fn \in ByteResults
  /\ \E i \in 1..Min(MaxPoke, Len(result.value)) :
       LET after == [ result.value EXCEPT ![i] = (@ + 1) % 256 ]
       IN  /\ result' = [ result EXCEPT !.value = after ]
           /\ data' = IF result.fresh THEN data ELSE after
  /\ pc' = "written"
  /\ UNCHANGED << width, height, writes, op, given, other, done >>

\* The caller drops an untouched result and goes on with its image.
Release ==
  /\ pc = "returned"
  /\ pc' = "ready"
  /\ op' = NoCall
  /\ given' = << >>
  /\ result' = Nothing
  /\ done' = << >>
  /\ UNCHANGED << width, height, data, writes, other >>

Next ==
  \/ SetPixel
  \/ CallApplyFilter
  \/ CallApplyFFT
  \/ CallLowPass
  \/ CallHighPass
  \/ CallBandPass
  \/ CallFrequencyFilter
  \/ CallInverseFFT
  \/ CallFrequencySpectrum
  \/ CallHorizontal
  \/ CallVertical
  \/ CallRadial
  \/ CallAngular
  \/ CallIsometric
  \/ CallCustomProjection
  \/ CallMultipleProjections
  \/ CallDetectBlur
  \/ CallToGrayscale
  \/ CallClone
  \/ CallApplySpatialFilter
  \/ WriteResult
  \/ Release

Spec == Init /\ [][Next]_vars

\* ------------------------------------------------- inverseFFT on any field
\* Largest width and height of the fields handed to inverseFFT directly.
MaxFieldDim == 4

\* A Float32Array field whose only non-zero value is 1.0, at offset `at`
\* (the real part of a bin when `at` is even, the imaginary part when odd).
Impulse(at, w, h) ==
  Stored([ j \in 1..(w * h * 2) |-> IF j - 1 = at THEN FieldDen ELSE 0 ])

\* The field of a call made by CallInverseFFTOfField.
FieldOf(call, w, h) == Impulse(call.a, w, h)

InitField ==
  /\ width \in 0..MaxFieldDim
  /\ height \in 0..MaxFieldDim
  /\ data = Zeros(width * height * 4)
  /\ writes = 0
  /\ pc = "ready"
  /\ op = NoCall
  /\ given = << >>
  /\ result = Nothing
  /\ other = NoImage
  /\ done = << >>

\* inverseFFT(fftData, width, height) on a field the caller built itself.
CallInverseFFTOfField ==
  \E at \in 0..(width * height * 2 - 1) :
    Call("inverseFFT", "impulse", at, 0,
         Returned(inverseFFT(Impulse(at, width, height), width, height), TRUE, {}))

NextField ==
  \/ CallInverseFFTOfField
  \/ Release

SpecField == InitField /\ [][NextField]_vars

\* Edge detection is exercised on images whose pixels come from three
\* colours that give neighbouring pixels nearly equal, large gradients.
MaxEdgeDim == 2
EdgePalette == { << 0, 255, 255, 255 >>, << 1, 0, 0, 255 >>, << 3, 0, 0, 255 >> }

\* The RGBA buffer of a sequence of pixels.
PixelBuffer(pixels) ==
  Stored([ j \in 1..(4 * Len(pixels)) |-> pixels[(j - 1) \div 4 + 1][((j - 1) % 4) + 1] ])

InitEdges ==
  /\ width \in 1..MaxEdgeDim
  /\ height \in 1..MaxEdgeDim
  /\ \E pixels \in [ 1..(width * height) -> EdgePalette ] : data = PixelBuffer(pixels)
  /\ writes = 0
  /\ pc = "ready"
  /\ op = NoCall
  /\ given = << >>
  /\ result = Nothing
  /\ other = NoImage
  /\ done = << >>

NextEdges ==
  \/ CallDetectBlur
  \/ Release

SpecEdges == InitEdges /\ [][NextEdges]_vars

\* Grayscale conversion is exercised on every gray level, on colours whose
\* luminance lies halfway between two integers, and on the tests' image.
HalfwayColours == { << 0, 36, 12, 255 >>, << 0, 80, 110, 7 >>, << 0, 0, 250, 255 >> }

InitGray ==
  /\ \/ /\ width = 1 /\ height = 1
        /\ \/ \E v \in 0..255, a \in {0, 7, 255} : data = << v, v, v, a >>
           \/ data \in HalfwayColours
     \/ width = 2 /\ height = 2 /\ data = testImageData
  /\ writes = 0
  /\ pc = "ready"
  /\ op = NoCall
  /\ given = << >>
  /\ result = Nothing
  /\ other = NoImage
  /\ done = << >>

NextGray ==
  \/ CallToGrayscale
  \/ Release

SpecGray == InitGray /\ [][NextGray]_vars

\* Pixel access and copying between two images: the caller's image is new
\* or the tests' 2x2 image, the second image is filled with one colour.
InitPixels ==
  /\ width \in Dims
  /\ height \in Dims
  /\ \/ data = Zeros(width * height * 4)
     \/ width = 2 /\ height = 2 /\ data = testImageData
  /\ \E w \in Dims, h \in Dims, px \in Palette :
       other = [ width |-> w, height |-> h,
                 data |-> PixelBuffer([ q \in 1..(w * h) |-> px ]) ]
  /\ done = << >>
  /\ writes = 0
  /\ pc = "ready"
  /\ op = NoCall
  /\ given = << >>
  /\ result = Nothing

\* image.setPixel(x, y, r, g, b, a)
CallSetPixel ==
  /\ pc = "ready"
  /\ writes < MaxWrites
  /\ \E x \in -1..width, y \in -1..height, px \in Palette :
       /\ op' = [ fn |-> "setPixel", sel |-> "", a |-> x, b |-> y ]
       /\ data' = Stored(setPixel(data, width, height, x, y, px))
  /\ given' = data
  /\ result' = Returned(<< >>, FALSE, {})
  /\ writes' = writes + 1
  /\ pc' = "returned"
  /\ UNCHANGED << width, height, other, done >>

\* image.getPixel(x, y)
CallGetPixel ==
  \E x \in -1..width, y \in -1..height :
    Call("getPixel", "", x, y, Returned(getPixel(data, width, height, x, y), TRUE, {}))

\* image.copyFrom(other)
CallCopyFrom ==
  /\ pc = "ready"
  /\ op' = [ fn |-> "copyFrom", sel |-> "", a |-> 0, b |-> 0 ]
  /\ given' = data
  /\ data' = Stored(copyFrom(data, width, height, other))
  /\ result' = Returned(<< >>, FALSE, {})
  /\ pc' = "returned"
  /\ UNCHANGED << width, height, writes, other, done >>

NextPixels ==
  \/ CallSetPixel
  \/ CallGetPixel
  \/ CallCopyFrom
  \/ Release

SpecPixels == InitPixels /\ [][NextPixels]_vars

\* The loops of the transforms run row by row, in any order of the rows.
\* The images: the tests' 2x2 image, a 3x2 image of the palette's colours,
\* and for the isometric projection a 5x5 and a 5x9 image that are black
\* but for one dim pixel in the last corner.
DimCorner(w, h) ==
  Stored([ j \in 1..(w * h * 4) |->
           IF (j - 1) \div 4 = w * h - 1 THEN << 10, 10, 10, 255 >>[((j - 1) % 4) + 1]
           ELSE IF (j - 1) % 4 = 3 THEN 255 ELSE 0 ])

RowImages ==
  { [ width |-> 2, height |-> 2, data |-> testImageData ],
    [ width |-> 3, height |-> 2,
      data |-> << 255, 0, 0, 255,     100, 150, 200, 255,  255, 128, 64, 7,
                  100, 150, 200, 255, 255, 128, 64, 7,     255, 0, 0, 255 >> ],
    [ width |-> 5, height |-> 5, data |-> DimCorner(5, 5) ],
    [ width |-> 5, height |-> 9, data |-> DimCorner(5, 9) ] }

\* The transforms that loop over the pixels of each row.
PerPixelLoops ==
  { "applyFilter", "applyHorizontalProjection", "applyVerticalProjection",
    "applyRadialProjection", "applyAngularProjection" }

RowCalls ==
  { [ fn |-> "applyFilter", sel |-> k, a |-> 0, b |-> 0 ] : k \in FilterNames }
  \cup { [ fn |-> f, sel |-> "", a |-> 0, b |-> 0 ] : f \in PerPixelLoops \ {"applyFilter"} }
  \cup { [ fn |-> "applyIsometricProjection", sel |-> "", a |-> ox, b |-> oy ] :
         ox \in IsoOffsets, oy \in IsoOffsets }

\* What the sequential loop of the call returns.
SequentialOutput(call, imageData, w, h) ==
  CASE call.fn = "applyFilter" -> applyFilter(imageData, w, h, call.sel).value
    [] call.fn = "applyHorizontalProjection" -> applyHorizontalProjection(imageData, w, h).value
    [] call.fn = "applyVerticalProjection" -> applyVerticalProjection(imageData, w, h).value
    [] call.fn = "applyRadialProjection" -> applyRadialProjection(imageData, w, h).value
    [] call.fn = "applyAngularProjection" -> applyAngularProjection(imageData, w, h).value
    [] call.fn = "applyIsometricProjection" ->
         applyIsometricProjection(imageData, w, h, call.a, call.b).value

\* The rows the outer loop of the call visits: every row, or every fourth.
RowsOf(call, h) ==
  IF call.fn = "applyIsometricProjection"
  THEN { SamplePositions(h)[t] : t \in 1..Len(SamplePositions(h)) }
  ELSE 0..(h - 1)

\* The result array before the loop over the rows: zeros, or the background.
BeforeRows(call, imageData, w, h) ==
  IF call.fn = "applyIsometricProjection"
  THEN Stored([ j \in 1..(w * h * 4) |-> IsoBackground[((j - 1) % 4) + 1] ])
  ELSE Zeros(Len(SequentialOutput(call, imageData, w, h)))

\* A variant in which every row would be stored over row 0.
LoopTargetFirstRow(w, x, y) == x

\* const index = (y * width + x) * 4: the pixel a per-pixel loop stores to.
LoopTarget(w, x, y) == y * w + x

\* The pixel the isometric projection stores the sample (x, y) to, or
\* Undefined when it falls outside the image.
IsoTarget(imageData, w, h, offsetX, offsetY, x, y) ==
  LET isoX == IsoX(x, y, w, h, offsetX)
      isoY == IsoY(x, y, w, h, offsetY, IsoBrightness(imageData, (y * w + x) * 4))
  IN  IF isoX >= 0 /\ isoX < w /\ isoY >= 0 /\ isoY < h THEN isoY * w + isoX
      ELSE Undefined

\* The shade the isometric projection stores for the sample at srcIndex.
IsoShade(imageData, srcIndex) ==
  LET lightness == Min(255000, IsoBrightness(imageData, srcIndex) + 60000)
  IN  << ToUint8Clamp(8 * lightness, 10000), ToUint8Clamp(9 * lightness, 10000),
         ToUint8Clamp(lightness, 1000), 255 >>

\* The stores made while row y is processed, in the order of the inner loop:
\* pairs of a pixel of the result and the four bytes stored there.
RowStores(call, imageData, w, h, y) ==
  IF call.fn = "applyIsometricProjection"
  THEN LET xs == SamplePositions(w)
           hits == SelectSeq(xs, LAMBDA x :
                     IsoTarget(imageData, w, h, call.a, call.b, x, y) # Undefined)
       IN  [ t \in 1..Len(hits) |->
             << IsoTarget(imageData, w, h, call.a, call.b, hits[t], y),
                IsoShade(imageData, (y * w + hits[t]) * 4) >> ]
  ELSE LET whole == SequentialOutput(call, imageData, w, h)
       IN  [ t \in 1..w |->
             << LoopTarget(w, t - 1, y),
                [ c \in 1..4 |-> whole[(y * w + t - 1) * 4 + c] ] >> ]

RECURSIVE StoreAll(_, _, _)
\* The array after the stores t.. of the sequence have been made.
StoreAll(array, stores, t) ==
  IF t > Len(stores) THEN array
  ELSE StoreAll([ j \in 1..Len(array) |->
                  IF (j - 1) \div 4 = stores[t][1] THEN stores[t][2][((j - 1) % 4) + 1]
                  ELSE array[j] ],
                stores, t + 1)

InitRows ==
  /\ \E image \in RowImages :
       width = image.width /\ height = image.height /\ data = image.data
  /\ writes = 0
  /\ pc = "ready"
  /\ op = NoCall
  /\ given = << >>
  /\ result = Nothing
  /\ other = NoImage
  /\ done = << >>

\* A transform is entered: its result array is allocated.  The per-pixel
\* loops are run on the images of up to 3x3 pixels.
BeginRows ==
  /\ pc = "ready"
  /\ \E call \in RowCalls :
       /\ call.fn \in PerPixelLoops => width <= 3 /\ height <= 3
       /\ op' = call
       /\ result' = Returned(BeforeRows(call, data, width, height), TRUE, {})
       /\ pc' = IF RowsOf(call, height) = {} THEN "returned" ELSE "rows"
  /\ given' = data
  /\ done' = << >>
  /\ UNCHANGED << width, height, data, writes, other >>

\* One more row is processed, whichever of those not yet done.
ProcessRow ==
  /\ pc = "rows"
  /\ \E y \in RowsOf(op, height) \ { done[t] : t \in 1..Len(done) } :
       /\ result' = [ result EXCEPT !.value =
            Stored(StoreAll(result.value, RowStores(op, given, width, height, y), 1)) ]
       /\ done' = Append(done, y)
  /\ pc' = IF Len(done') = Cardinality(RowsOf(op, height)) THEN "returned" ELSE "rows"
  /\ UNCHANGED << width, height, data, writes, op, given, other >>

NextRows ==
  \/ BeginRows
  \/ ProcessRow
  \/ Release

SpecRows == InitRows /\ [][NextRows]_vars

\* The transforms are handed arrays of any length: empty, one byte short of
\* width * height * 4, exact, and one byte or one pixel too long.
Ramp(n) == Stored([ j \in 1..n |-> (j * 53) % 256 ])

BufferLengths(w, h) ==
  { n \in { 0, w * h * 4 - 1, w * h * 4, w * h * 4 + 1, w * h * 4 + 4 } : n >= 0 }

InitBuffers ==
  /\ width \in Dims
  /\ height \in Dims
  /\ \E n \in BufferLengths(width, height) : data = Ramp(n)
  /\ writes = 0
  /\ pc = "ready"
  /\ op = NoCall
  /\ given = << >>
  /\ result = Nothing
  /\ other = NoImage
  /\ done = << >>

NextBuffers ==
  \/ CallApplyFilter
  \/ CallApplyFFT
  \/ CallLowPass
  \/ CallHighPass
  \/ CallBandPass
  \/ CallFrequencyFilter
  \/ CallInverseFFT
  \/ CallFrequencySpectrum
  \/ CallHorizontal
  \/ CallVertical
  \/ CallRadial
  \/ CallAngular
  \/ CallIsometric
  \/ CallCustomProjection
  \/ CallMultipleProjections
  \/ CallDetectBlur
  \/ Release

SpecBuffers == InitBuffers /\ [][NextBuffers]_vars

\* The IPC endpoints of the main process.  A request carries imageData as
\* an array of numbers, width, height and, for three channels, a selector.
RequestNumbers(n) == Stored([ j \in 1..n |-> ((j * 53) % 300) - 20 ])

\* new Uint8ClampedArray(imageData): every number is clamped to a byte.
ImageArrayOf(imageData) ==
  Stored([ j \in 1..Len(imageData) |-> ToUint8Clamp(imageData[j], 1) ])

Channels ==
  { "apply-spatial-filter", "apply-frequency-filter", "get-frequency-domain",
    "apply-projection", "apply-blur-detection" }

\* What a handler resolves to: { success: true, data: Array.from(resultData) }
\* when the class call returned, { success: false, error: error.message }
\* when it threw.
Reply(r) ==
  IF r.ok
  THEN [ success |-> TRUE, data |-> Stored(r.value) ]
  ELSE [ success |-> FALSE, error |-> r.error ]

InitIpc ==
  /\ width \in Dims
  /\ height \in Dims
  /\ \E n \in BufferLengths(width, height) : data = RequestNumbers(n)
  /\ writes = 0
  /\ pc = "ready"
  /\ op = NoCall
  /\ given = << >>
  /\ result = Nothing
  /\ other = NoImage
  /\ done = << >>

\* One invocation of a channel: the handler converts the array, calls the
\* class and resolves to r.
Handle(channel, sel, r) ==
  /\ pc = "ready"
  /\ op' = [ fn |-> channel, sel |-> sel, a |-> 0, b |-> 0 ]
  /\ given' = data
  /\ result' = r
  /\ pc' = "returned"
  /\ UNCHANGED << width, height, data, writes, other, done >>

HandleApplySpatialFilter ==
  \E filterName \in RequestedNames :
    Handle("apply-spatial-filter", filterName,
           Reply(applyFilter(ImageArrayOf(data), width, height, filterName)))

HandleApplyFrequencyFilter ==
  \E filterType \in FilterTypes \cup BogusTypes :
    Handle("apply-frequency-filter", filterType,
           Reply(applyFrequencyFilter(ImageArrayOf(data), width, height, filterType)))

HandleGetFrequencyDomain ==
  Handle("get-frequency-domain", "",
         Reply(Returned(inverseFFT(applyFFT(ImageArrayOf(data), width, height),
                                   width, height), TRUE, {})))

HandleApplyProjection ==
  \E projectionType \in ProjectionTypes \cup BogusTypes :
    Handle("apply-projection", projectionType,
           Reply(applyCustomProjection(ImageArrayOf(data), width, height,
                                       projectionType, 0, 0)))

HandleApplyBlurDetection ==
  Handle("apply-blur-detection", "",
         Reply(detectBlur(ImageArrayOf(data), width, height)))

NextIpc ==
  \/ HandleApplySpatialFilter
  \/ HandleApplyFrequencyFilter
  \/ HandleGetFrequencyDomain
  \/ HandleApplyProjection
  \/ HandleApplyBlurDetection
  \/ Release

SpecIpc == InitIpc /\ [][NextIpc]_vars

\* Construction.  new dipImage(width, height) stores both numbers and
\* allocates new Uint8ClampedArray(width * height * 4); the allocation raises
\* a RangeError when the length is negative.  new dipCanvas(width, height)
\* does nothing but construct its dipImage.
MaxSide == 5

Sides == (0 - MaxSide)..MaxSide

LengthMessage(n) == "Invalid typed array length: " \o ToString(n)

construct(w, h) ==
  IF w * h * 4 < 0
  THEN Thrown(LengthMessage(w * h * 4))
  ELSE Returned(Zeros(w * h * 4), TRUE, {})

\* No image has been constructed yet.
InitConstruct ==
  /\ width = 0
  /\ height = 0
  /\ data = << >>
  /\ writes = 0
  /\ pc = "ready"
  /\ op = NoCall
  /\ given = << >>
  /\ result = Nothing
  /\ other = NoImage
  /\ done = << >>

\* image = new dipImage(w, h): the variable takes the new image when the
\* constructor completes and keeps what it held when it raises.
Construct ==
  /\ pc = "ready"
  /\ \E w \in Sides, h \in Sides :
       LET r == construct(w, h)
       IN  /\ op' = [ fn |-> "constructor", sel |-> "", a |-> w, b |-> h ]
           /\ result' = r
           /\ width' = IF r.ok THEN w ELSE width
           /\ height' = IF r.ok THEN h ELSE height
           /\ data' = IF r.ok THEN r.value ELSE data
  /\ given' = data
  /\ pc' = "returned"
  /\ UNCHANGED << writes, other, done >>

NextConstruct == Construct \/ Release

SpecConstruct == InitConstruct /\ [][NextConstruct]_vars

\* The pixel store: sequences of setPixel, clear and copyFrom on a new image,
\* read back with getPixel.  The colours are those of the 'clear' test, one
\* without alpha argument and one outside 0..255.
MaxStores == 2

StorePalette == { << 255, 128, 64, 255 >>, << 100, 150, 200 >>, << 300, -20, 0, 7 >> }

InitStore ==
  /\ width \in Dims
  /\ height \in Dims
  /\ data = Zeros(width * height * 4)
  /\ \E h \in { height, height + 1 } :
       other = [ width |-> width, height |-> h,
                 data |-> PixelBuffer([ q \in 1..(width * h) |-> << 10, 20, 30, 40 >> ]) ]
  /\ done = << >>
  /\ writes = 0
  /\ pc = "ready"
  /\ op = NoCall
  /\ given = << >>
  /\ result = Nothing

\* image.setPixel(x, y, r, g, b) or image.setPixel(x, y, r, g, b, a)
StoreSetPixel ==
  /\ pc = "ready"
  /\ writes < MaxStores
  /\ \E x \in -1..width, y \in -1..height, px \in StorePalette :
       /\ op' = [ fn |-> "setPixel", sel |-> "", a |-> x, b |-> y, px |-> px ]
       /\ data' = Stored(setPixel(data, width, height, x, y, WithDefaultAlpha(px)))
  /\ given' = data
  /\ result' = Returned(<< >>, FALSE, {})
  /\ writes' = writes + 1
  /\ pc' = "returned"
  /\ UNCHANGED << width, height, other, done >>

\* image.clear()
StoreClear ==
  /\ pc = "ready"
  /\ writes < MaxStores
  /\ op' = [ fn |-> "clear", sel |-> "", a |-> 0, b |-> 0 ]
  /\ given' = data
  /\ data' = Stored(clear(data))
  /\ result' = Returned(<< >>, FALSE, {})
  /\ writes' = writes + 1
  /\ pc' = "returned"
  /\ UNCHANGED << width, height, other, done >>

NextStore ==
  \/ StoreSetPixel
  \/ StoreClear
  \/ CallCopyFrom
  \/ CallGetPixel
  \/ Release

SpecStore == InitStore /\ [][NextStore]_vars

\* An image and its clone.  `other` is the clone once clone() has returned;
\* result.fresh tells whether the clone's array is an allocation of its own,
\* and a store into an array that two images share lands in both.
Mutations == { "setPixel", "clear", "copyFrom" }

InitClone ==
  /\ width \in Dims
  /\ height \in Dims
  /\ \/ data = Zeros(width * height * 4)
     \/ width = 2 /\ height = 2 /\ data = testImageData
     \/ \E px \in Palette : data = PixelBuffer([ q \in 1..(width * height) |-> px ])
  /\ writes = 0
  /\ pc = "ready"
  /\ op = NoCall
  /\ given = << >>
  /\ result = Nothing
  /\ other = NoImage
  /\ done = << >>

\* clonedImage = image.clone()
CloneImage ==
  /\ pc = "ready"
  /\ op' = [ fn |-> "clone", sel |-> "", a |-> 0, b |-> 0 ]
  /\ given' = data
  /\ result' = clone(data, width, height)
  /\ other' = [ width |-> width, height |-> height, data |-> Stored(result'.value) ]
  /\ pc' = "cloned"
  /\ UNCHANGED << width, height, data, writes, done >>

\* The bytes of `array` after one mutation of its image; `from` is the
\* argument of copyFrom.
Mutated(fn, array, w, h, x, y, px, from) ==
  CASE fn = "setPixel" -> Stored(setPixel(array, w, h, x, y, px))
    [] fn = "clear" -> Stored(clear(array))
    [] fn = "copyFrom" -> Stored(copyFrom(array, w, h, from))

\* clonedImage.setPixel(...), clonedImage.clear(), clonedImage.copyFrom(image)
MutateClone ==
  /\ pc = "cloned"
  /\ writes < MaxStores
  /\ \E fn \in Mutations, x \in 0..width, y \in 0..height, px \in Palette :
       /\ fn # "setPixel" => (x = 0 /\ y = 0 /\ px = << 255, 0, 0, 255 >>)
       /\ LET after == Mutated(fn, other.data, other.width, other.height, x, y, px,
                               [ width |-> width, height |-> height, data |-> data ])
          IN  /\ op' = [ fn |-> fn, sel |-> "clone", a |-> x, b |-> y ]
              /\ other' = [ other EXCEPT !.data = after ]
              /\ data' = IF result.fresh THEN data ELSE after
  /\ writes' = writes + 1
  /\ UNCHANGED << width, height, pc, given, result, done >>

\* image.setPixel(...), image.clear(), image.copyFrom(clonedImage)
MutateOriginal ==
  /\ pc = "cloned"
  /\ writes < MaxStores
  /\ \E fn \in Mutations, x \in 0..width, y \in 0..height, px \in Palette :
       /\ fn # "setPixel" => (x = 0 /\ y = 0 /\ px = << 255, 0, 0, 255 >>)
       /\ LET after == Mutated(fn, data, width, height, x, y, px, other)
          IN  /\ op' = [ fn |-> fn, sel |-> "original", a |-> x, b |-> y ]
              /\ data' = after
              /\ other' = IF result.fresh THEN other ELSE [ other EXCEPT !.data = after ]
  /\ writes' = writes + 1
  /\ UNCHANGED << width, height, pc, given, result, done >>

NextClone == CloneImage \/ MutateClone \/ MutateOriginal

SpecClone == InitClone /\ [][NextClone]_vars

\* The angular projection on images its ring of radius 5 reaches: strips of
\* 10 and 11 pixels, a 10x3 band, and the 2x2 size the ring misses.  The
\* first pixel, the last pixel and all pixels between them take a colour
\* each, opaque, translucent or fully transparent.
RingSizes == { << 10, 1 >>, << 11, 1 >>, << 1, 10 >>, << 10, 3 >>, << 2, 2 >> }

RingPalette == Palette \cup { << 0, 0, 0, 0 >> }

InitRing ==
  /\ \E size \in RingSizes : width = size[1] /\ height = size[2]
  /\ \E first \in RingPalette, inner \in RingPalette, last \in RingPalette :
       data = PixelBuffer([ q \in 1..(width * height) |->
                            IF q = 1 THEN first
                            ELSE IF q = width * height THEN last ELSE inner ])
  /\ writes = 0
  /\ pc = "ready"
  /\ op = NoCall
  /\ given = << >>
  /\ result = Nothing
  /\ other = NoImage
  /\ done = << >>

NextRing == CallAngular \/ Release

SpecRing == InitRing /\ [][NextRing]_vars

\* The masks of the frequency filters by themselves: which bins take the
\* keep branch of the filter loop when applyFrequencyFilter passes its
\* default cut-offs.  The branch depends on width, height and the bin only.
MaxMaskDim == 12

InitMask ==
  /\ width \in 1..MaxMaskDim
  /\ height \in 1..MaxMaskDim
  /\ data = << >>
  /\ writes = 0
  /\ pc = "ready"
  /\ op = NoCall
  /\ given = << >>
  /\ result = Nothing
  /\ other = NoImage
  /\ done = << >>

\* The filter loop of applyFrequencyFilter(_, width, height, filterType) has
\* chosen a branch for every bin.
ChooseBranches ==
  /\ pc = "ready"
  /\ \E filterType \in FilterTypes :
       /\ op' = [ fn |-> "applyFrequencyFilter", sel |-> filterType, a |-> 0, b |-> 0 ]
       /\ result' = [ Nothing EXCEPT !.ok = TRUE,
                                     !.kept = applyFrequencyFilterKeeps(width, height, filterType) ]
  /\ pc' = "returned"
  /\ UNCHANGED << width, height, data, writes, given, other, done >>

NextMask == ChooseBranches \/ Release

SpecMask == InitMask /\ [][NextMask]_vars

\* The forward transform on two images of one size.  The second is the first
\* but for one pixel, whose colour bytes or whose alpha byte differ.
MaxSampleDim == 6

Changes == { "colour", "alpha" }

Changed(array, q, change) ==
  Stored([ j \in 1..Len(array) |->
    IF (j - 1) \div 4 # q THEN array[j]
    ELSE IF change = "alpha" THEN (IF (j - 1) % 4 = 3 THEN (array[j] + 100) % 256 ELSE array[j])
    ELSE (IF (j - 1) % 4 = 3 THEN array[j] ELSE (array[j] + 100) % 256) ])

InitSamples ==
  /\ width \in 1..MaxSampleDim
  /\ height \in 1..MaxSampleDim
  /\ data = Ramp(width * height * 4)
  /\ \E q \in 0..(width * height - 1), change \in Changes :
       other = [ width |-> width, height |-> height, data |-> Changed(data, q, change) ]
  /\ writes = 0
  /\ pc = "ready"
  /\ op = NoCall
  /\ given = << >>
  /\ result = Nothing
  /\ done = << >>

\* Frequency.applyFFT(data, width, height)
CallApplyFFTOperands ==
  Call("applyFFT", "", 0, 0, Returned(applyFFTOperands(data, width, height), TRUE, {}))

NextSamples == CallApplyFFTOperands \/ Release

SpecSamples == InitSamples /\ [][NextSamples]_vars

\* Blur detection on images of one colour: every pixel has the same R, G, B
\* and an alpha of its own.
MaxFlatDim == 3

FlatColours ==
  { << 0, 0, 0 >>, << 255, 255, 255 >>, << 255, 0, 0 >>, << 100, 150, 200 >>, << 1, 2, 3 >> }

FlatAlphas == { 0, 7, 255 }

InitFlat ==
  /\ width \in 1..MaxFlatDim
  /\ height \in 1..MaxFlatDim
  /\ \E colour \in FlatColours, first \in FlatAlphas, rest \in FlatAlphas :
       data = PixelBuffer([ q \in 1..(width * height) |->
                            colour \o << IF q = 1 THEN first ELSE rest >> ])
  /\ writes = 0
  /\ pc = "ready"
  /\ op = NoCall
  /\ given = << >>
  /\ result = Nothing
  /\ other = NoImage
  /\ done = << >>

NextFlat == CallDetectBlur \/ Release

SpecFlat == InitFlat /\ [][NextFlat]_vars

\* ------------------------------------------------------------------ Claims
\* A call has just ended and its result has not been touched.
JustReturned(fn) == pc = "returned" /\ op.fn = fn

\* C1: for every RGBA buffer of length 4*w*h, applyFilter(buf, w, h,
\* "Identity") returns a buffer byte-for-byte equal to buf.  The statement
\* fails in the code: a pixel whose alpha is 0 comes back with alpha 255
\* (the store of C2).
C1_IdentityReturnsEqualBuffer ==
  (JustReturned("applyFilter") /\ op.sel = "Identity")
    => (result.ok /\ result.value = given)

\* C2: for every registered kernel and every input, the alpha byte of each
\* output pixel of applyFilter equals the alpha byte of the input pixel at
\* the same (x, y), for every alpha value 0..255.  The statement fails in
\* the code: `imageData[index + 3] || 255` turns alpha 0 into 255.
C2_AlphaPreserved ==
  (JustReturned("applyFilter") /\ op.sel \in FilterNames)
    => /\ result.ok
       /\ \A p \in 0..(width * height - 1) : result.value[p * 4 + 4] = given[p * 4 + 4]

\* C3: applyFilter does not raise for any of the eight registry names, and
\* for every other kernel name it ends in an error whose message names the
\* requested kernel; it hands back no pixels in that case (no fallback to
\* Identity or to any other kernel).
C3_RegistryCompleteness ==
  JustReturned("applyFilter")
    => IF op.sel \in { "Identity", "Gaussian Blur", "Sharpen", "Mean Removal",
                       "Emboss Laplascian", "Sobel", "Horizontal Edge", "Vertical Edge" }
       THEN result.ok /\ result.error = "" /\ Len(result.value) = Len(given)
       ELSE /\ ~result.ok
            /\ result.value = << >>
            /\ result.error = "Filter \"" \o op.sel \o "\" not found"

\* C3 witness: an unregistered name has been requested on a non-empty image
\* and the call has ended in the error.
C3_UnknownKernelRequested ==
  /\ JustReturned("applyFilter")
  /\ op.sel = "Nope"
  /\ Len(given) > 0
  /\ ~result.ok

\* C4 as stated: horizontal projection of the tests' 2x2 buffer yields
\* R,G,B = (127,127,0) at both pixels of row 0.  The code stores the mean
\* 127.5 in a Uint8ClampedArray, which rounds it to 128.
C4_RowZeroIs127 ==
  (JustReturned("applyHorizontalProjection") /\ given = testImageData
     /\ width = 2 /\ height = 2)
    => /\ SubSeq(result.value, 1, 3) = << 127, 127, 0 >>
       /\ SubSeq(result.value, 5, 7) = << 127, 127, 0 >>

\* C4 amended: horizontal projection of the tests' 2x2 buffer yields
\* R,G,B = (128,128,0) at both pixels of row 0; in general each colour byte
\* of a row is the nearest integer to that row's mean of the channel (a tie
\* going to the even neighbour), the same at every pixel of the row, and
\* alpha is the input pixel's.
C4_RowMeanRoundedToNearest ==
  JustReturned("applyHorizontalProjection")
    => /\ result.ok
       /\ \A y \in 0..(height - 1), x \in 0..(width - 1), c \in 0..2 :
            LET v == result.value[(y * width + x) * 4 + c + 1]
                sum == SeqSum([ t \in 1..width |-> given[(y * width + t - 1) * 4 + c + 1] ])
            IN  /\ v \in 0..255
                /\ 2 * width * v - 2 * sum \in (-width)..width
                /\ (2 * width * v - 2 * sum \in { -width, width }) => v % 2 = 0
                /\ v = result.value[(y * width) * 4 + c + 1]
       /\ \A p \in 0..(width * height - 1) : result.value[p * 4 + 4] = given[p * 4 + 4]
       /\ (given = testImageData /\ width = 2 /\ height = 2)
            => /\ SubSeq(result.value, 1, 3) = << 128, 128, 0 >>
               /\ SubSeq(result.value, 5, 7) = << 128, 128, 0 >>

\* C4 witness: the tests' buffer has been projected.
C4_TestBufferProjected ==
  /\ JustReturned("applyHorizontalProjection")
  /\ given = testImageData
  /\ width = 2 /\ height = 2
  /\ result.value[1] = 128

\* C5 as stated: for low <= high the bins retained by applyBandPassFilter
\* are those retained by applyLowPassFilter(high) and not retained by
\* applyLowPassFilter(low), bins at distance exactly low included.  It fails
\* in the code: a bin at distance exactly low is retained by the low-pass
\* filter (dist <= low) and by the band-pass filter (dist >= low) alike.
C5_BandIsHighLowPassMinusLowLowPass ==
  JustReturned("applyBandPassFilter")
    => LET all == 0..(width * height - 1)
           low == applyLowPassFilter(given, width, height, op.a).kept
           high == applyLowPassFilter(given, width, height, op.b).kept
       IN  result.kept = (all \ low) \cap high

\* C5 amended: for low <= high the bins retained by applyBandPassFilter are
\* those retained by applyLowPassFilter(high) that are either not retained
\* by applyLowPassFilter(low) or lie at distance exactly low from the centre
\* (low <= dist <= high).
C5_BandKeepsTheLowBoundary ==
  JustReturned("applyBandPassFilter")
    => LET all == 0..(width * height - 1)
           low == applyLowPassFilter(given, width, height, op.a).kept
           high == applyLowPassFilter(given, width, height, op.b).kept
           atLow == { i \in all : Dist64(i, width, height) = op.a * op.a }
       IN  /\ result.ok
           /\ result.kept = ((all \ low) \cup atLow) \cap high

\* C5 witness: a band-pass call has retained a bin at distance exactly low,
\* and has zeroed another bin.
C5_BoundaryBinRetained ==
  /\ JustReturned("applyBandPassFilter")
  /\ op.a > 0
  /\ \E i \in result.kept : Dist64(i, width, height) = op.a * op.a
  /\ \E i \in 0..(width * height - 1) : i \notin result.kept

\* C6: every engine operation, the two dispatchers with any selector string
\* included, returns a freshly allocated buffer: the result is never the
\* input object, so a write to the result never changes the caller's input.
\* It fails in the code: applyFrequencyFilter returns imageData itself for a
\* filterType it does not know.
C6_ResultFreshlyAllocated ==
  /\ (pc = "returned" /\ result.ok) => result.fresh
  /\ pc = "written" => data = given

C8_OutputLengths ==
  (pc = "returned" /\ result.ok /\ Len(given) = 4 * width * height)
    => CASE op.fn = "applyFFT" -> Len(result.value) = 2 * width * height
         [] op.fn = "getFrequencySpectrum" -> Len(result.value) = width * height
         [] op.fn = "applyMultipleProjections" ->
              \A k \in 1..4 : Len(result.value[k]) = 4 * width * height
         [] op.fn \in { "applyFilter", "applyLowPassFilter", "applyHighPassFilter",
                        "applyBandPassFilter", "inverseFFT",
                        "applyHorizontalProjection", "applyVerticalProjection",
                        "applyRadialProjection", "applyAngularProjection",
                        "applyIsometricProjection", "detectBlur" } ->
              Len(result.value) = 4 * width * height
         [] OTHER -> TRUE

\* C8 witness: applyFFT has returned the field of a non-empty image.
C8_FieldReturned ==
  /\ JustReturned("applyFFT")
  /\ width * height > 0
  /\ Len(result.value) = 2 * width * height

\* C9: an unrecognized selector is never an error: applyCustomProjection
\* with a type outside {horizontal, vertical, radial, angular, isometric} and
\* applyFrequencyFilter with a type outside {lowpass, highpass, bandpass}
\* return without raising, and the content returned equals the input.
C9_UnknownSelectorPassesThrough ==
  /\ (JustReturned("applyCustomProjection")
        /\ op.sel \notin { "horizontal", "vertical", "radial", "angular", "isometric" })
       => (result.ok /\ result.value = given)
  /\ (JustReturned("applyFrequencyFilter")
        /\ op.sel \notin { "lowpass", "highpass", "bandpass" })
       => (result.ok /\ result.value = given)

\* C9 witness: applyCustomProjection has been given an unknown type on an
\* image that holds a pixel other than zero.
C9_UnknownProjectionRequested ==
  /\ JustReturned("applyCustomProjection")
  /\ op.sel = "bogus-type"
  /\ \E i \in 1..Len(given) : given[i] # 0

\* C10: the low-, high- and band-pass filters return exactly inverseFFT of
\* the forward field with the non-retained bins zeroed, so every pixel has
\* R = G = B and alpha 255.  It fails in the code: the filters store the
\* clamped real and imaginary parts in R, G, B and keep the input's alpha.
C10_FiltersReturnInverseOfMaskedField ==
  (pc = "returned"
     /\ op.fn \in { "applyLowPassFilter", "applyHighPassFilter", "applyBandPassFilter" })
    => /\ \A p \in 0..(width * height - 1) :
            /\ result.value[p * 4 + 1] = result.value[p * 4 + 2]
            /\ result.value[p * 4 + 2] = result.value[p * 4 + 3]
            /\ result.value[p * 4 + 4] = 255
       /\ LET field == applyFFT(given, width, height)
               masked == Stored([ j \in 1..(width * height * 2) |->
                           IF (j - 1) \div 2 \in result.kept THEN field[j] ELSE 0 ])
           IN  result.value = inverseFFT(masked, width, height)

\* C11: inverseFFT performs a quadrant swap that is a bijection on pixels:
\* the byte of bin (u, v) appears at output pixel ((u + floor(w/2)) mod w,
\* (v + floor(h/2)) mod h), so bin (0,0) lands at the middle pixel, every
\* output pixel is written exactly once for even and odd w, h, and every
\* output pixel has R = G = B and alpha 255.
C11_QuadrantSwapIsBijection ==
  (JustReturned("inverseFFT") /\ op.sel = "impulse")
    => LET bins == { <<u, v>> : u \in 0..(width - 1), v \in 0..(height - 1) }
           Target(b) == ((b[2] + height \div 2) % height) * width
                        + ((b[1] + width \div 2) % width)
           byte == MagnitudeBytes(FieldOf(op, width, height), width, height)
       IN  /\ Len(result.value) = 4 * width * height
           /\ \A b \in bins :
                /\ result.value[Target(b) * 4 + 1] = byte[b[2] * width + b[1]]
                /\ result.value[Target(b) * 4 + 2] = byte[b[2] * width + b[1]]
                /\ result.value[Target(b) * 4 + 3] = byte[b[2] * width + b[1]]
                /\ result.value[Target(b) * 4 + 4] = 255
           /\ \A q \in 0..(width * height - 1) :
                Cardinality({ b \in bins : Target(b) = q }) = 1
           /\ (width > 0 /\ height > 0)
                => Target(<<0, 0>>) = (height \div 2) * width + width \div 2

\* C11 witness: on a 3x3 field whose only non-zero bin is (0,0), the white
\* pixel is the middle one and the eight others are black and opaque.
C11_ImpulseCentred ==
  /\ JustReturned("inverseFFT")
  /\ op.sel = "impulse" /\ op.a = 0
  /\ width = 3 /\ height = 3
  /\ SubSeq(result.value, 17, 20) = << 255, 255, 255, 255 >>
  /\ SubSeq(result.value, 1, 4) = << 0, 0, 0, 255 >>


\* C12: every pixel of detectBlur's output has G = 0, B = 0 and alpha = 255,
\* and R is the min-max normalisation of the gradient magnitudes: when the
\* magnitudes are not all equal some pixel has R = 255 and some pixel has
\* R = 0, and when they are all equal every pixel has R = 0.
C12_RedIsMinMaxNormalized ==
  JustReturned("detectBlur") =>
    LET out == result.value
        v == applyFilter(given, width, height, "Vertical Edge").value
        h == applyFilter(given, width, height, "Horizontal Edge").value
        P == 0..(width * height - 1)
        allEqual == \A p \in P, q \in P : Gradient2(v, h, p) = Gradient2(v, h, q)
    IN  /\ \A p \in P : out[4 * p + 2] = 0 /\ out[4 * p + 3] = 0 /\ out[4 * p + 4] = 255
        /\ ~allEqual => (\E p \in P : out[4 * p + 1] = 255) /\ (\E p \in P : out[4 * p + 1] = 0)
        /\ allEqual => \A p \in P : out[4 * p + 1] = 0

\* round(n / d) for d > 0 on the rationals: the nearest integer, a tie upwards.
NearestInteger(n, d) == FloorDiv(2 * n + d, 2 * d)

\* C13: toGrayscale returns a new image of the same dimensions in which every
\* pixel has R = G = B = round(0.299R + 0.587G + 0.114B) of the source pixel
\* and the alpha byte of the source pixel.
C13_GrayscaleKeepsLuminanceAndAlpha ==
  JustReturned("toGrayscale") =>
    /\ result.fresh
    /\ Len(result.value) = width * height * 4
    /\ \A p \in 0..(width * height - 1) :
         LET gray == NearestInteger(299 * given[4 * p + 1] + 587 * given[4 * p + 2]
                                      + 114 * given[4 * p + 3], 1000)
         IN  /\ result.value[4 * p + 1] = gray
             /\ result.value[4 * p + 2] = gray
             /\ result.value[4 * p + 3] = gray
             /\ result.value[4 * p + 4] = given[4 * p + 4]

\* C14: grayscale conversion is idempotent: converting the result of
\* toGrayscale again gives exactly the same bytes, all four channels of
\* every pixel.
C14_GrayscaleIdempotent ==
  JustReturned("toGrayscale") =>
    toGrayscale(result.value, width, height).value = result.value

\* The tests' coloured 2x2 image has been converted, and converting the
\* result again changes nothing.
C14_ColouredImageConverted ==
  /\ JustReturned("toGrayscale")
  /\ given = testImageData
  /\ result.value # given
  /\ result.value[1] = 76 /\ result.value[5] = 150 /\ result.value[9] = 29
  /\ toGrayscale(result.value, width, height).value = result.value

\* (op.a, op.b) lies outside the caller's image.
OutOfBounds == op.a < 0 \/ op.a >= width \/ op.b < 0 \/ op.b >= height

\* C15: out-of-bounds pixel access is absorbed, never raised: for x < 0,
\* x >= width, y < 0 or y >= height, getPixel returns (0,0,0,0) and setPixel
\* leaves every byte of the buffer unchanged.
C15_OutOfBoundsAbsorbed ==
  /\ JustReturned("getPixel") /\ OutOfBounds =>
       result.ok /\ result.value = << 0, 0, 0, 0 >>
  /\ JustReturned("setPixel") /\ OutOfBounds =>
       result.ok /\ data = given

\* setPixel(2, 0, ...) on the tests' 2x2 image, whose unchecked index would
\* be that of pixel (0, 1), has returned and the image is as it was.
C15_StorePastRowEndDropped ==
  /\ JustReturned("setPixel")
  /\ given = testImageData
  /\ op.a = width /\ op.b = 0
  /\ result.ok
  /\ data = testImageData

\* C16: dest.copyFrom(src) makes dest's bytes equal to src's bytes when width
\* and height both match, and is a silent no-op (no error, every byte of dest
\* unchanged) when width or height differs, even if the two buffers have the
\* same total length; src is never modified.
C16_CopyFromOnlyOnEqualDimensions ==
  /\ [](JustReturned("copyFrom") =>
          /\ result.ok
          /\ (width = other.width /\ height = other.height) => data = other.data
          /\ (width # other.width \/ height # other.height) => data = given)
  /\ [][other' = other]_vars

\* copyFrom between a 1x2 and a 2x1 image, whose buffers have the same
\* length and different bytes, has returned and changed nothing.
C16_SameLengthOtherShapeIgnored ==
  /\ JustReturned("copyFrom")
  /\ width = 1 /\ height = 2
  /\ other.width = 2 /\ other.height = 1
  /\ Len(data) = Len(other.data)
  /\ given # other.data
  /\ data = given

\* C17: for every registered kernel each R, G, B byte applyFilter returns is
\* the weighted sum S saturated to [0,255], except that for the kernel
\* named "Mean Removal", and only for it, the byte is 2*S + 128 saturated to
\* [0,255]; every byte is within [0,255].  S is ConvSum/den and the
\* saturated value is stored in a byte.
C17_SumSaturatedMeanRemovalBiased ==
  JustReturned("applyFilter") /\ op.sel \in FilterNames =>
    \A p \in 0..(width * height - 1), c \in 0..2 :
      LET den == Filters[op.sel].den
          S == ConvSum(given, width, height, Filters[op.sel], p % width, p \div width, c)
          byte == result.value[4 * p + c + 1]
      IN  /\ byte \in 0..255
          /\ op.sel = "Mean Removal" => byte = ToUint8Clamp(2 * S + 128 * den, den)
          /\ op.sel # "Mean Removal" => byte = ToUint8Clamp(S, den)

\* Mean Removal has run on the tests' 2x2 image: the red sum 1147/9 of pixel
\* 0 saturates to 255, its green sum -638/9 to 0, and pixel 3 gets
\* 2*385/9 + 128 = 214 and 2*130/9 + 128 = 157.
C17_MeanRemovalOnTestImage ==
  /\ JustReturned("applyFilter")
  /\ op.sel = "Mean Removal"
  /\ given = testImageData
  /\ ConvSum(given, 2, 2, Filters["Mean Removal"], 0, 0, 0) = 1147
  /\ ConvSum(given, 2, 2, Filters["Mean Removal"], 0, 0, 1) = -638
  /\ result.value[1] = 255 /\ result.value[2] = 0
  /\ result.value[13] = 214 /\ result.value[14] = 157

\* The pixels of the result stored to while row y of the run is processed.
RowTargets(y) ==
  LET stores == RowStores(op, given, width, height, y)
  IN  { stores[t][1] : t \in 1..Len(stores) }

\* No pixel of the result is stored to while processing two different rows.
RowsDisjoint ==
  \A y1 \in RowsOf(op, height), y2 \in RowsOf(op, height) :
    y1 # y2 => RowTargets(y1) \cap RowTargets(y2) = {}

\* The rows have been processed in the order of the sequential loop.
InLoopOrder == \A t \in 1..(Len(done) - 1) : done[t] < done[t + 1]

C19_RadialNeverDividesByZero ==
  JustReturned("applyRadialProjection") =>
    \A p \in 0..(width * height - 1) : RadialDistance2(width, height, p) # 0

ValidRequest == width > 0 /\ height > 0 /\ Len(given) = width * height * 4

\* C21: every IPC endpoint validates its parameters before processing: a
\* request whose width or height is not a positive integer, or whose
\* imageData length differs from width*height*4, is answered with
\* { success: false, error } and carries no image data.  The statement fails
\* in the code: no handler checks anything before it calls the class.
C21_InvalidRequestsRejected ==
  (pc = "returned" /\ op.fn \in Channels /\ ~ValidRequest)
    => (~result.success /\ "data" \notin DOMAIN result)

\* clamp(v, lo, hi)
ClampTo(v, lo, hi) == IF v < lo THEN lo ELSE IF v > hi THEN hi ELSE v

\* The sum of all weights of a kernel (numerator over kernel.den).
WeightSum(kernel) ==
  SeqSum([ t \in 1..(Len(kernel.k) * Len(kernel.k)) |->
            kernel.k[(t - 1) \div Len(kernel.k) + 1][((t - 1) % Len(kernel.k)) + 1] ])

\* The sum, over the taps of a kernel, of weight times channel c of the pixel
\* of buf nearest to (x + kx - half, y + ky - half) inside a w x h image.
EdgeReplicatedSum(buf, w, h, kernel, x, y, c) ==
  LET size == Len(kernel.k)
      half == size \div 2
  IN  SeqSum([ t \in 1..(size * size) |->
        LET ky == (t - 1) \div size
            kx == (t - 1) % size
            sx == ClampTo(x + kx - half, 0, w - 1)
            sy == ClampTo(y + ky - half, 0, h - 1)
        IN  buf[(sy * w + sx) * 4 + c + 1] * kernel.k[ky + 1][kx + 1] ])

\* C22: dipImage.applySpatialFilter handles image borders by clamping the
\* sampled coordinates to the image: a kernel tap that falls outside the
\* image contributes the nearest edge pixel's value rather than nothing.
\* The statement fails in the code: the tap is skipped.
C22_SpatialFilterClampsCoordinates ==
  JustReturned("applySpatialFilter") =>
    \A p \in 0..(width * height - 1), c \in 0..2 :
      result.value[p * 4 + c + 1] =
        ToUint8Clamp(EdgeReplicatedSum(given, width, height, Filters[op.sel],
                                       p % width, p \div width, c),
                     Filters[op.sel].den)

\* C23: applyFilter replicates edge pixels: for every output pixel (x, y)
\* and kernel tap (kx, ky) the sampled source coordinate is
\* (clamp(x+kx-half, 0, w-1), clamp(y+ky-half, 0, h-1)), so every tap reads
\* an in-range pixel and none contributes zero for being out of range; on a
\* 1x1 image each output channel is the source channel times the sum of all
\* kernel weights, then post-processed.
C23_FilterReplicatesEdgePixels ==
  (JustReturned("applyFilter") /\ op.sel \in FilterNames) =>
    /\ \A p \in 0..(width * height - 1), c \in 0..2 :
         result.value[p * 4 + c + 1] =
           FilterChannel(op.sel,
                         EdgeReplicatedSum(given, width, height, Filters[op.sel],
                                           p % width, p \div width, c),
                         Filters[op.sel].den)
    /\ (width = 1 /\ height = 1) =>
         \A c \in 0..2 :
           result.value[c + 1] =
             FilterChannel(op.sel, given[c + 1] * WeightSum(Filters[op.sel]),
                           Filters[op.sel].den)

\* The Laplacian of the 2x2 test image has returned: the red byte of the gray
\* corner pixel is 4*128 - 255 - 0 - 0 - 128, its own value replicated into
\* the tap below and to the right of it.
C23_CornerTapReplicated ==
  /\ JustReturned("applyFilter")
  /\ op.sel = "Emboss Laplascian"
  /\ width = 2 /\ height = 2
  /\ given = testImageData
  /\ result.value[13] = 129

\* C24: constructing a dipImage (or dipCanvas) never throws for invalid
\* dimensions: for every pair of integers width, height in which one or both
\* are negative or zero, new dipImage(width, height) completes and reports
\* the given width and height.  The statement fails in the code when exactly
\* one of the two is negative and the other is positive.
C24_ConstructionNeverThrows ==
  (JustReturned("constructor") /\ (op.a <= 0 \/ op.b <= 0))
    => (result.ok /\ width = op.a /\ height = op.b)

\* Channel values saturated to 0..255, alpha defaulting to 255.
Saturated(px) ==
  [ c \in 1..4 |->
      LET v == IF c <= Len(px) THEN px[c] ELSE 255
      IN  IF v < 0 THEN 0 ELSE IF v > 255 THEN 255 ELSE v ]

InBounds(x, y) == x >= 0 /\ x < width /\ y >= 0 /\ y < height

\* What one step may do to the pixels getPixel reads, (x, y) ranging over the
\* image: a setPixel inside the image writes its pixel and no other, one
\* outside writes none; clear blackens all; copyFrom takes the pixels of an
\* image of the same dimensions and none of any other; nothing else writes.
StoreStep ==
  /\ width' = width
  /\ height' = height
  /\ Len(data') = 4 * width * height
  /\ \A x \in 0..(width - 1), y \in 0..(height - 1) :
       getPixel(data', width', height', x, y) =
         IF pc' = "returned" /\ op'.fn = "setPixel" /\ op'.a = x /\ op'.b = y
         THEN Saturated(op'.px)
         ELSE IF pc' = "returned" /\ op'.fn = "clear"
         THEN << 0, 0, 0, 0 >>
         ELSE IF /\ pc' = "returned" /\ op'.fn = "copyFrom"
                 /\ other.width = width /\ other.height = height
         THEN getPixel(other.data, other.width, other.height, x, y)
         ELSE getPixel(data, width, height, x, y)
  /\ (pc' = "returned" /\ op'.fn = "getPixel" /\ InBounds(op'.a, op'.b))
       => result'.value = getPixel(data, width, height, op'.a, op'.b)

\* C25: after any sequence of setPixel (in or out of bounds), clear and
\* copyFrom calls on a dipImage, width and height are unchanged, data.length
\* is 4*width*height, and for every in-bounds (x, y) getPixel(x, y) returns
\* the channel values (saturated to 0..255, alpha defaulting to 255) of the
\* most recent write to that pixel, or (0,0,0,0) if it has not been written
\* since construction or the last clear; a setPixel at (x, y) changes no
\* other pixel.  Every pixel is (0,0,0,0) at construction and every step
\* writes exactly the pixels named above.
C25_PixelStoreKeepsLastWrite ==
  /\ (pc = "ready" /\ writes = 0) =>
       \A x \in 0..(width - 1), y \in 0..(height - 1) :
         getPixel(data, width, height, x, y) = << 0, 0, 0, 0 >>
  /\ [][StoreStep]_vars

\* A pixel written with (300, -20, 0, 7) and then with (100, 150, 200) reads
\* back as the second write with alpha 255, in an image of two pixels or more.
C25_SecondWriteReadBack ==
  /\ JustReturned("setPixel")
  /\ writes = 2
  /\ width * height >= 2
  /\ InBounds(op.a, op.b)
  /\ op.px = << 100, 150, 200 >>
  /\ getPixel(given, width, height, op.a, op.b) = << 255, 0, 0, 7 >>
  /\ getPixel(data, width, height, op.a, op.b) = << 100, 150, 200, 255 >>

\* C26: clone returns a distinct image with the same width, height and
\* bytes, and the two are independent afterwards: any later setPixel, clear
\* or copyFrom on the clone leaves the original's bytes unchanged, and any
\* later mutation of the original leaves the clone's bytes unchanged.
C26_CloneIsIndependent ==
  /\ [](pc = "cloned" =>
          /\ result.ok /\ result.fresh
          /\ other.width = width /\ other.height = height
          /\ Len(other.data) = Len(data)
          /\ writes = 0 => other.data = data)
  /\ [][ /\ (pc = "cloned" /\ op'.sel = "clone") => data' = data
         /\ (pc = "cloned" /\ op'.sel = "original") => other'.data = other.data ]_vars

\* The clone of the 2x2 test image has been written and cleared: it is black
\* while the original still holds the bytes it had when it was cloned.
C26_CloneClearedOriginalKept ==
  /\ pc = "cloned"
  /\ writes = 2
  /\ op.fn = "clear" /\ op.sel = "clone"
  /\ data = testImageData
  /\ given = testImageData
  /\ other.data = Zeros(16)

\* C27: applyAngularProjection's output is spatially uniform in colour: for
\* every input, all output pixels carry the same (R,G,B) triple, while each
\* output pixel's alpha equals the input alpha at the same position.
C27_AngularOutputUniform ==
  JustReturned("applyAngularProjection") =>
    /\ \A p \in 0..(width * height - 1), q \in 0..(width * height - 1), c \in 1..3 :
         result.value[p * 4 + c] = result.value[q * 4 + c]
    /\ \A p \in 0..(width * height - 1) : result.value[p * 4 + 4] = given[p * 4 + 4]

\* The projection of a strip of ten pixels has returned: its first pixel,
\* (255, 128, 64) five pixels left of the centre, is met by 11 of the 360
\* steps, the rest of the strip is black and transparent, and every output
\* pixel carries (8, 4, 2), the sums 2805, 1408 and 704 over 360.
C27_RingAverageBroadcast ==
  /\ JustReturned("applyAngularProjection")
  /\ width = 10 /\ height = 1
  /\ given = PixelBuffer([ q \in 1..10 |->
                           IF q = 1 THEN << 255, 128, 64, 7 >> ELSE << 0, 0, 0, 0 >> ])
  /\ \A p \in 0..9 :
       /\ result.value[p * 4 + 1] = 8
       /\ result.value[p * 4 + 2] = 4
       /\ result.value[p * 4 + 3] = 2
  /\ result.value[4] = 7
  /\ result.value[8] = 0

SameSampledColours(a1, a2, w, h) ==
  \A x \in 0..(w - 1), y \in 0..(h - 1), c \in 1..3 :
    (x % 4 = 0 /\ y % 4 = 0) => a1[(y * w + x) * 4 + c] = a2[(y * w + x) * 4 + c]

\* C29: applyFFT's result depends only on the R,G,B bytes of source pixels
\* at positions (x,y) with x mod 4 = 0 and y mod 4 = 0: two inputs of the
\* same dimensions that agree on those bytes produce identical frequency
\* fields, whatever their alpha bytes and whatever the bytes of all other
\* pixels.
C29_FieldDependsOnSampledColoursOnly ==
  (/\ JustReturned("applyFFT")
   /\ other.width = width /\ other.height = height
   /\ SameSampledColours(given, other.data, width, height))
    => result.value = applyFFTOperands(other.data, width, height)

\* The transform of a 6x6 image has returned; the second image differs from
\* it in the colour of pixel (1, 0), next to the sampled pixel (0, 0).
C29_UnsampledPixelDiffers ==
  /\ JustReturned("applyFFT")
  /\ width = 6 /\ height = 6
  /\ other.data[5] # given[5]
  /\ SameSampledColours(given, other.data, width, height)
  /\ Len(result.value) = 36

\* C30: for every image in which all pixels have the same R,G,B values (any
\* w, h >= 1, any alpha), detectBlur returns R = 0, G = 0, B = 0, alpha = 255
\* at every pixel, border pixels included.
C30_UniformImageHasNoEdges ==
  (/\ JustReturned("detectBlur")
   /\ width >= 1 /\ height >= 1
   /\ Len(given) = width * height * 4
   /\ \A p \in 0..(width * height - 1), c \in 1..3 : given[p * 4 + c] = given[c])
    => /\ result.ok
       /\ Len(result.value) = width * height * 4
       /\ \A p \in 0..(width * height - 1) :
            /\ result.value[p * 4 + 1] = 0
            /\ result.value[p * 4 + 2] = 0
            /\ result.value[p * 4 + 3] = 0
            /\ result.value[p * 4 + 4] = 255

\* Blur detection has returned for a 3x3 image of the colour (100, 150, 200)
\* whose pixels are transparent but for the first: the image has border
\* pixels and an inner one, and the result is black and opaque.
C30_FlatColourDetected ==
  /\ JustReturned("detectBlur")
  /\ width = 3 /\ height = 3
  /\ \A p \in 0..8 : /\ given[p * 4 + 1] = 100
                     /\ given[p * 4 + 2] = 150
                     /\ given[p * 4 + 3] = 200
  /\ given[4] = 255 /\ given[8] = 0
  /\ result.value[1] = 0
  /\ result.value[4] = 255
  /\ result.value[17] = 0

=============================================================================
